---- MODULE Spec2Model ----
(***************************************************************************)
(* Whispr: hold-to-talk speech to text.  A model of the activation state   *)
(* machine of src/whispr.py (class Whispr), of the recorder it drives      *)
(* (class AudioRecorder), of the completion path of a transcription and of *)
(* the transcription history.                                              *)
(*                                                                         *)
(* Threads.  pynput's keyboard.Listener calls _on_key_press and            *)
(* _on_key_release on its own thread; every GLib callback                  *)
(* (_check_activation, _finish, the tray's toggle_recording and            *)
(* clear_transcription_history) runs on the one main-loop thread; each     *)
(* transcription runs on a thread of its own.  Code under `with            *)
(* self._lock` is one step (all of it runs under the same lock or, for     *)
(* _finish, cannot overlap the states it is reachable in); code of the     *)
(* main loop outside the lock is one step per shared write, so that the    *)
(* listener thread can run between them.                                   *)
(*                                                                         *)
(* Time is counted in ticks of half a millisecond, so that                 *)
(* int(hold_duration * 1000) of line 560 truncates as it does in Python.   *)
(*                                                                         *)
(* Spec is the engine.  The parts the engine only calls into are also run  *)
(* on their own, each from the same initial state: HistSpec and SnapSpec   *)
(* (the history and the list handed to its readers), CleanSpec             *)
(* (_clean_text), BackendSpec (the choice of backend in                    *)
(* Transcriber.transcribe), RecSpec (AudioRecorder.start and stop) and     *)
(* PasteSpec (the delivery of a text by _finish, _copy_to_clipboard and    *)
(* _paste), TranscribeSpec (what the three backends run, read and raise).  *)
(* TimerSpec is the engine with one trigger key and nothing but the        *)
(* listener and the activation timer; LockSpec is the engine with the      *)
(* taking and the releasing of self._lock as steps of their own; HeldSpec  *)
(* is the engine where the run also keeps which keys went down while it    *)
(* was busy.                                                               *)
(***************************************************************************)
EXTENDS Integers, Sequences, FiniteSets, TLC

\* ------------------------------------------------------------------ bounds
MaxTime == 4          \* the clock stops here
MaxKeyEvents == 4     \* key press and release events delivered by the listener
MaxToggles == 1       \* toggle_recording calls from the tray menu
MaxAdds == 11         \* add_transcription calls between two clears (HistSpec)
MaxSnapAdds == 3      \* add_transcription calls between two clears (SnapSpec)
MaxCleanLen == 5      \* length of the texts handed to _clean_text (CleanSpec)
MaxCalls == 2         \* Transcriber.transcribe calls (BackendSpec)
MaxDeliveries == 1    \* texts _finish delivers (PasteSpec)
MaxPasteFailures == 1  \* commands of _paste that fail in one run (PasteSpec)
MaxStarts == 3        \* AudioRecorder.start calls (RecSpec)
MaxTimerKeyEvents == 5 \* key events delivered by the listener (TimerSpec)
MaxStderrLines == 2   \* lines the local engine prints on stderr (TranscribeSpec)
MaxLevels == 2        \* level callbacks the monitor threads hand over (RecSpec)

\* ------------------------------------------------------- program constants
MAX_HISTORY == 10
MinViableSize == 1000

\* ------------------------------------------------------------------ values
None == <<>>
Some(x) == <<x>>
Val(o) == o[1]

IDLE == "IDLE"
WAITING == "WAITING"
RECORDING == "RECORDING"
TRANSCRIBING == "TRANSCRIBING"
WhisprState == {IDLE, WAITING, RECORDING, TRANSCRIBING}

\* config.trigger_keys, default "alt,print_screen"
Keys == {"alt", "print_screen"}

\* config.hold_duration in ticks: 1 ms, and 1.5 ms (not a whole number of ms)
HoldDurations == {2, 3}

\* sizes the capture process may leave in the output file
FileSizes == {500, 1000, 1001}

RecordingTooShort == "Recording too short"
BackendErrors == {"No whisper.cpp found"}

\* ------------------------------------------------------------- _clean_text
HelloWorld == <<"h", "e", "l", "l", "o", " ", "w", "o", "r", "l", "d">>
\* what a backend may print: speech, an annotation only, nothing
RawOutputs == {HelloWorld, <<"(", "m", ")", " ">>, <<"[", "m", "]", "\n">>, <<>>}

UpperOf ==
    [c \in {"a", "b", "c", "d", "e", "f", "g", "h", "i", "j", "k", "l", "m",
            "n", "o", "p", "q", "r", "s", "t", "u", "v", "w", "x", "y", "z"} |->
        CASE c = "a" -> "A" [] c = "b" -> "B" [] c = "c" -> "C" [] c = "d" -> "D"
          [] c = "e" -> "E" [] c = "f" -> "F" [] c = "g" -> "G" [] c = "h" -> "H"
          [] c = "i" -> "I" [] c = "j" -> "J" [] c = "k" -> "K" [] c = "l" -> "L"
          [] c = "m" -> "M" [] c = "n" -> "N" [] c = "o" -> "O" [] c = "p" -> "P"
          [] c = "q" -> "Q" [] c = "r" -> "R" [] c = "s" -> "S" [] c = "t" -> "T"
          [] c = "u" -> "U" [] c = "v" -> "V" [] c = "w" -> "W" [] c = "x" -> "X"
          [] c = "y" -> "Y" [] OTHER -> "Z"]

\* str.upper() of one character
Upper(c) == IF c \in DOMAIN UpperOf THEN UpperOf[c] ELSE c

IsSpace(c) == c \in {" ", "\n", "\t"}

\* index of the first `close` at or after position i, 0 when there is none
RECURSIVE FirstAt(_, _, _)
FirstAt(s, close, i) ==
    IF i > Len(s) THEN 0
    ELSE IF s[i] = close THEN i
    ELSE FirstAt(s, close, i + 1)

\* re.sub(open [^close]* close, "", s): leftmost matches, left to right
RECURSIVE SubGroups(_, _, _)
SubGroups(s, open, close) ==
    IF s = <<>> THEN <<>>
    ELSE IF s[1] = open /\ FirstAt(s, close, 2) # 0
         THEN SubGroups(SubSeq(s, FirstAt(s, close, 2) + 1, Len(s)), open, close)
         ELSE <<s[1]>> \o SubGroups(Tail(s), open, close)

RECURSIVE LStrip(_)
LStrip(s) == IF s # <<>> /\ IsSpace(s[1]) THEN LStrip(Tail(s)) ELSE s

RECURSIVE RStrip(_)
RStrip(s) ==
    IF s # <<>> /\ IsSpace(s[Len(s)]) THEN RStrip(SubSeq(s, 1, Len(s) - 1)) ELSE s

Strip(s) == RStrip(LStrip(s))

Capitalize(s) == IF s # <<>> THEN <<Upper(s[1])>> \o Tail(s) ELSE s

\* mutant: the first character is capitalized before the text is stripped
clean_text_cap_first(text) ==
    Strip(Capitalize(SubGroups(SubGroups(text, "(", ")"), "[", "]")))

\* mutant: the first letter is left as it is
clean_text_nocap(text) ==
    Strip(SubGroups(SubGroups(text, "(", ")"), "[", "]"))

clean_text(text) ==
    Capitalize(Strip(SubGroups(SubGroups(text, "(", ")"), "[", "]")))

\* --------------------------------------------------------------- variables
VARIABLES
    \* Whispr
    state, trigger_pressed, key_press_time, activation_source,
    transcription_history, hold_duration,
    \* AudioRecorder
    is_recording, rec_process, temp_wav,
    \* GLib main loop: pending timeouts, idle callbacks, the running callback
    timers, idle_queue, mainpc, mainArg,
    \* transcription threads
    workers,
    \* collaborators: last tray.set_state, last _notify, last _play_sound
    tray_state, lastNotify, lastSound,
    \* environment: the clock, and when each key went down
    now, downSince,
    \* history of the run
    keyEvents, toggles, pressNo, session,
    stateLog, startLog, stopLog, transcribeLog, finishLog, allEarly, added,
    \* the list get_recent_transcriptions handed to its caller
    snapshot,
    \* _clean_text called on its own: the text, its result, the result's result
    clean_in, clean_once, clean_twice,
    \* WhisprConfig transcription fields, the OPENAI_API_KEY environment
    \* variable, and the backend methods Transcriber.transcribe has entered
    use_openai, openai_api_key, whisper_server, env_api_key, backendLog,
    \* Transcriber.transcribe called on its own: what the commands it runs
    \* find, print and return, and what the call then returned or raised
    backend_env, transcribe_result,
    \* self._lock: the thread that holds it, and what it took it for
    lock_holder,
    \* the monitor_level threads that are alive, each named by the start()
    \* that created it, and the level callbacks they have handed to the loop
    monitors, levelLog,
    \* the trigger keys that went down while the engine was Recording or
    \* Transcribing and have been down since
    busy_held,
    \* AudioRecorder called on its own: how the last stop() went and what it
    \* returned, None once start() has run again
    stop_result,
    \* delivery: config.auto_paste and config.copy_to_clipboard, the X
    \* clipboard, the pending GLib timeouts that call _paste, the running
    \* restore_clipboard threads, the xsel/xclip/xdotool commands run that
    \* write the clipboard or the keyboard, and what each _paste call did
    auto_paste, copy_to_clipboard, clipboard, paste_timers, restore_threads,
    cmdLog, pasteLog

whisprVars == <<state, trigger_pressed, key_press_time, activation_source,
                transcription_history, hold_duration>>
recorderVars == <<is_recording, rec_process, temp_wav>>
loopVars == <<timers, idle_queue, mainpc, mainArg>>
sinkVars == <<tray_state, lastNotify, lastSound>>
envVars == <<now, downSince>>
logVars == <<keyEvents, toggles, pressNo, session,
             stateLog, startLog, stopLog, transcribeLog, finishLog, allEarly, added>>
\* what the activation machine neither reads nor writes
cleanVars == <<clean_in, clean_once, clean_twice>>
backendVars == <<use_openai, openai_api_key, whisper_server, env_api_key, backendLog>>
callVars == <<backend_env, transcribe_result>>
monitorVars == <<monitors, levelLog>>
pasteVars == <<auto_paste, copy_to_clipboard, clipboard, paste_timers, restore_threads,
               cmdLog, pasteLog>>
\* all of it but busy_held, which the key handlers keep when it is followed
otherSideVars == <<snapshot, cleanVars, backendVars, callVars, lock_holder, monitorVars,
                   stop_result, pasteVars>>
sideVars == <<otherSideVars, busy_held>>
vars == <<whisprVars, recorderVars, loopVars, workers, sinkVars, envVars, logVars,
          sideVars>>

\* ------------------------------------------------------------------- Init
\* Whispr.__init__ and AudioRecorder.__init__
EngineInit ==
    /\ state = IDLE
    /\ trigger_pressed = FALSE
    /\ key_press_time = None
    /\ activation_source = None
    /\ transcription_history = <<>>
    /\ hold_duration \in HoldDurations
    /\ is_recording = FALSE
    /\ rec_process = None
    /\ temp_wav = None
    /\ timers = {}
    /\ idle_queue = <<>>
    /\ mainpc = "loop"
    /\ mainArg = None
    /\ workers = {}
    /\ tray_state = "idle"
    /\ lastNotify = None
    /\ lastSound = None
    /\ now = 0
    /\ downSince = [k \in Keys |-> None]
    /\ keyEvents = 0
    /\ toggles = 0
    /\ pressNo = 0
    /\ session = 0
    /\ stateLog = <<IDLE>>
    /\ startLog = <<>>
    /\ stopLog = <<>>
    /\ transcribeLog = <<>>
    /\ finishLog = <<>>
    /\ allEarly = TRUE
    /\ added = <<>>

\* nothing has asked for the history yet
SnapIdle == snapshot = None

\* _clean_text is not being called on its own
CleanIdle == clean_in = <<>> /\ clean_once = None /\ clean_twice = None

\* WhisprConfig defaults, lines 82-84; no OPENAI_API_KEY in the environment
BackendDefaults ==
    /\ use_openai = FALSE
    /\ openai_api_key = ""
    /\ whisper_server = ""
    /\ env_api_key = ""
    /\ backendLog = <<>>

\* Transcriber.transcribe is not being called on its own
CallIdle == backend_env = None /\ transcribe_result = None

\* threading.Lock(), line 424: nobody holds it
LockFree == lock_holder = None

\* AudioRecorder.__init__: no monitor_level thread has been started
MonitorIdle == monitors = {} /\ levelLog = <<>>

\* no trigger key is down
NoBusyHeld == busy_held = {}

\* nothing has been delivered
NothingDelivered ==
    /\ paste_timers = {}
    /\ restore_threads = {}
    /\ cmdLog = <<>>
    /\ pasteLog = <<>>

\* WhisprConfig defaults, lines 87-88; an empty clipboard
PasteDefaults ==
    /\ auto_paste = TRUE
    /\ copy_to_clipboard = TRUE
    /\ clipboard = <<>>
    /\ NothingDelivered

Init ==
    /\ EngineInit
    /\ SnapIdle
    /\ CleanIdle
    /\ BackendDefaults
    /\ CallIdle
    /\ LockFree
    /\ MonitorIdle
    /\ NoBusyHeld
    /\ stop_result = None
    /\ PasteDefaults

\* ---------------------------------------------------------------- helpers
\* int(self.config.hold_duration * 1000) milliseconds, in ticks
TimerInterval(h) == (h \div 2) * 2

\* mutant: Waiting is reported under its own name
TrayNameWaiting(s) ==
    CASE s = RECORDING -> "recording"
      [] s = TRANSCRIBING -> "transcribing"
      [] s = WAITING -> "waiting"
      [] OTHER -> "idle"

\* state_map of _update_tray_state
TrayName(s) ==
    CASE s = RECORDING -> "recording"
      [] s = TRANSCRIBING -> "transcribing"
      [] OTHER -> "idle"

\* mutant: an empty text is delivered like any other
NoTextNever(text) == FALSE

\* _finish, line 675: `if not text`, for a text that is a string
NoText(text) == text = <<>>

\* GLib.source_remove(id) on the pending timeouts
SourceRemove(ts, src) == {t \in ts : Some(t.id) # src}

\* the state sequence of the run
LogState == stateLog' = IF state' = state THEN stateLog ELSE Append(stateLog, state')

\* mutant: the new text goes to the back, and the trim then drops it
add_transcription_back(h, text) ==
    IF text # <<>> THEN SubSeq(h \o <<text>>, 1, IF Len(h) + 1 < MAX_HISTORY THEN Len(h) + 1 ELSE MAX_HISTORY)
    ELSE h

\* add_transcription: insert at the front, trim to MAX_HISTORY
add_transcription(h, text) ==
    IF text # <<>> THEN SubSeq(<<text>> \o h, 1, IF Len(h) + 1 < MAX_HISTORY THEN Len(h) + 1 ELSE MAX_HISTORY)
    ELSE h

\* mutant: a file of exactly the minimum size is returned too
ViableAtLeast(f) == f # None /\ Val(f).size >= MinViableSize

\* AudioRecorder.stop: the file is returned only above the minimum size
Viable(f) == f # None /\ Val(f).size > MinViableSize

\* what the output file may hold once the capture process has been stopped:
\* what this capture wrote, or what was there before when it wrote nothing
StopFiles ==
    IF rec_process # None
    THEN {Some([size |-> n, session |-> session]) : n \in FileSizes} \cup {temp_wav}
    ELSE {temp_wav}

\* _start_recording with AudioRecorder.start; ok = FALSE: Popen(["rec", ...])
\* raises (no sox), after is_recording was set and before the start sound
start_recording(ok, via, timer) ==
    /\ state' = RECORDING
    /\ tray_state' = TrayName(RECORDING)
    /\ is_recording' = TRUE
    /\ rec_process' = IF ok THEN Some(session + 1) ELSE rec_process
    /\ lastSound' = IF ok THEN Some("start") ELSE lastSound
    /\ session' = session + 1
    /\ startLog' = Append(startLog, [via |-> via, press |-> pressNo, timer |-> timer])
    /\ UNCHANGED <<temp_wav, workers, idle_queue, stopLog>>

\* mutant: the file is handed to the backend whenever it exists
stop_recording_any_file(f) ==
    /\ state' = TRANSCRIBING
    /\ tray_state' = TrayName(TRANSCRIBING)
    /\ is_recording' = FALSE
    /\ rec_process' = None
    /\ temp_wav' = f
    /\ IF f # None
       THEN /\ workers' = workers \cup {[session |-> session, wav |-> Val(f)]}
            /\ idle_queue' = idle_queue
       ELSE /\ idle_queue' = Append(idle_queue,
                [session |-> session, text |-> None, error |-> Some(RecordingTooShort)])
            /\ workers' = workers
    /\ stopLog' = Append(stopLog, [session |-> session, viable |-> Viable(f)])
    /\ UNCHANGED <<lastSound, session, startLog>>

\* _stop_recording with AudioRecorder.stop; f is the output file afterwards
stop_recording(f) ==
    /\ state' = TRANSCRIBING
    /\ tray_state' = TrayName(TRANSCRIBING)
    /\ is_recording' = FALSE
    /\ rec_process' = None
    /\ temp_wav' = f
    /\ IF Viable(f)
       THEN /\ workers' = workers \cup {[session |-> session, wav |-> Val(f)]}
            /\ idle_queue' = idle_queue
       ELSE /\ idle_queue' = Append(idle_queue,
                [session |-> session, text |-> None, error |-> Some(RecordingTooShort)])
            /\ workers' = workers
    /\ stopLog' = Append(stopLog, [session |-> session, viable |-> Viable(f)])
    /\ UNCHANGED <<lastSound, session, startLog>>

\* neither: the state becomes s, the recorder is left alone
no_recording(s) ==
    /\ state' = s
    /\ UNCHANGED <<tray_state, is_recording, rec_process, temp_wav, workers,
                   idle_queue, lastSound, session, startLog, stopLog>>

\* ---------------------------------------------------------------- actions
\* mutant: the trigger-held flag is not looked at
AlreadyPressedIgnored == FALSE

\* _on_key_press, lines 545-546: a press while the trigger-held flag is set
AlreadyPressed == trigger_pressed

\* _on_key_press on the listener thread, for a trigger key; a press of a key
\* that is already down is its auto-repeat
on_key_press(k) ==
    /\ keyEvents' = keyEvents + 1
    /\ downSince' = IF downSince[k] = None THEN [downSince EXCEPT ![k] = Some(now)]
                    ELSE downSince
    /\ IF AlreadyPressed
       THEN UNCHANGED <<trigger_pressed, state, key_press_time, timers,
                        activation_source, pressNo>>
       ELSE /\ trigger_pressed' = TRUE
            /\ IF state = IDLE
               THEN /\ key_press_time' = Some(now)
                    /\ state' = WAITING
                    /\ timers' = SourceRemove(timers, activation_source) \cup
                           {[id |-> pressNo + 1, due |-> now + TimerInterval(hold_duration)]}
                    /\ activation_source' = Some(pressNo + 1)
                    /\ pressNo' = pressNo + 1
               ELSE UNCHANGED <<state, key_press_time, timers, activation_source, pressNo>>
    /\ UNCHANGED <<transcription_history, hold_duration, recorderVars, idle_queue,
                   mainpc, mainArg, workers, sinkVars, now, toggles, session,
                   startLog, stopLog, transcribeLog, finishLog, allEarly, added>>
    /\ LogState
    /\ UNCHANGED otherSideVars

\* mutant: a release stops the capture whenever the engine is busy
ReleaseStopsBusy == state \in {RECORDING, TRANSCRIBING}

\* _on_key_release, line 579: a release stops the capture only in Recording
ReleaseStops == state = RECORDING

\* _on_key_release on the listener thread, for a trigger key that is down
on_key_release(k) ==
    /\ downSince[k] # None
    /\ keyEvents' = keyEvents + 1
    /\ downSince' = [downSince EXCEPT ![k] = None]
    /\ allEarly' = (allEarly /\ now - Val(downSince[k]) < hold_duration)
    /\ trigger_pressed' = FALSE
    /\ IF state = WAITING
       THEN /\ no_recording(IDLE)
            /\ key_press_time' = None
            /\ timers' = SourceRemove(timers, activation_source)
            /\ activation_source' = None
       ELSE /\ IF ReleaseStops
               THEN \E f \in StopFiles : stop_recording(f)
               ELSE no_recording(state)
            /\ UNCHANGED <<key_press_time, timers, activation_source>>
    /\ UNCHANGED <<transcription_history, hold_duration, mainpc, mainArg,
                   lastNotify, now, toggles, pressNo, transcribeLog, finishLog, added>>
    /\ LogState
    /\ UNCHANGED otherSideVars

\* the main loop dispatches a timeout that is due: _check_activation is called
timeout_dispatch ==
    /\ mainpc = "loop"
    /\ \E t \in timers :
        /\ t.due <= now
        /\ timers' = timers \ {t}
        /\ mainArg' = Some(t.id)
    /\ mainpc' = "check_activation"
    /\ UNCHANGED <<whisprVars, recorderVars, idle_queue, workers, sinkVars, envVars, logVars>>
    /\ UNCHANGED sideVars

\* _check_activation, line 584: the source id is cleared before the lock is taken
check_activation_clear ==
    /\ mainpc = "check_activation"
    /\ activation_source' = None
    /\ mainpc' = "check_activation_locked"
    /\ UNCHANGED <<state, trigger_pressed, key_press_time, transcription_history,
                   hold_duration, recorderVars, timers, idle_queue, mainArg, workers,
                   sinkVars, envVars, logVars>>
    /\ UNCHANGED sideVars

\* mutant: the check trusts the timer and does not look at the clock
HoldElapsedTrusted == TRUE

\* mutant: the check compares with the interval the timer was given
HoldElapsedTruncated == now - Val(key_press_time) >= TimerInterval(hold_duration)

\* _check_activation, lines 597-598: the wall-clock time since the press
HoldElapsed == now - Val(key_press_time) >= hold_duration

\* _check_activation, lines 586-601, under the lock
check_activation_locked ==
    /\ mainpc = "check_activation_locked"
    /\ IF state # WAITING THEN no_recording(state)
       ELSE IF ~trigger_pressed THEN no_recording(IDLE)
       ELSE IF key_press_time = None THEN no_recording(state)
       ELSE IF HoldElapsed
            THEN \E ok \in BOOLEAN : start_recording(ok, "check", Val(mainArg))
            ELSE no_recording(state)
    /\ mainpc' = "loop"
    /\ mainArg' = None
    /\ UNCHANGED <<trigger_pressed, key_press_time, activation_source,
                   transcription_history, hold_duration, timers, lastNotify, envVars,
                   keyEvents, toggles, pressNo, transcribeLog, finishLog,
                   allEarly, added>>
    /\ LogState
    /\ UNCHANGED sideVars

\* mutant: the tray starts a recording whenever none is being captured
ToggleStartsUnlessRecording == state # RECORDING

\* toggle_recording, line 506: the tray starts a recording only from Idle
ToggleStarts == state = IDLE

\* toggle_recording, from the tray menu on the main loop
toggle_recording ==
    /\ mainpc = "loop"
    /\ toggles < MaxToggles
    /\ toggles' = toggles + 1
    /\ IF ToggleStarts THEN \E ok \in BOOLEAN : start_recording(ok, "toggle", 0)
       ELSE IF state = RECORDING THEN \E f \in StopFiles : stop_recording(f)
       ELSE no_recording(state)
    /\ UNCHANGED <<trigger_pressed, key_press_time, activation_source,
                   transcription_history, hold_duration, timers, mainpc, mainArg,
                   lastNotify, envVars, keyEvents, pressNo, transcribeLog,
                   finishLog, allEarly, added>>
    /\ LogState
    /\ UNCHANGED sideVars

\* mutant: the thread completes the transcription itself
transcribe_file_finishes ==
    /\ \E w \in workers :
        /\ workers' = workers \ {w}
        /\ transcribeLog' = Append(transcribeLog, w.session)
    /\ state' = IDLE
    /\ UNCHANGED <<trigger_pressed, key_press_time, activation_source,
                   transcription_history, hold_duration, recorderVars, loopVars, sinkVars,
                   envVars, keyEvents, toggles, pressNo, session, startLog,
                   stopLog, finishLog, allEarly, added>>
    /\ LogState
    /\ UNCHANGED sideVars

\* _transcribe_file on its own thread: transcribe returns the cleaned text of
\* what the backend printed, or raises; either way _finish is handed to the loop
transcribe_file ==
    /\ \E w \in workers :
        /\ workers' = workers \ {w}
        /\ transcribeLog' = Append(transcribeLog, w.session)
        /\ \E r \in {[text |-> Some(clean_text(raw)), error |-> None] : raw \in RawOutputs}
                    \cup {[text |-> None, error |-> Some(e)] : e \in BackendErrors} :
            idle_queue' = Append(idle_queue,
                [session |-> w.session, text |-> r.text, error |-> r.error])
    /\ UNCHANGED <<whisprVars, recorderVars, timers, mainpc, mainArg, sinkVars, envVars,
                   keyEvents, toggles, pressNo, session, stateLog, startLog,
                   stopLog, finishLog, allEarly, added>>
    /\ UNCHANGED sideVars

\* mutant: the idle callback stays installed and runs again
finish_begin_again ==
    /\ mainpc = "loop"
    /\ idle_queue # <<>>
    /\ idle_queue' = idle_queue
    /\ mainArg' = Some(Head(idle_queue))
    /\ mainpc' = "finish"
    /\ state' = IDLE
    /\ finishLog' = Append(finishLog, Head(idle_queue))
    /\ UNCHANGED <<trigger_pressed, key_press_time, activation_source,
                   transcription_history, hold_duration, recorderVars, timers, workers,
                   sinkVars, envVars, keyEvents, toggles, pressNo, session,
                   startLog, stopLog, transcribeLog, allEarly, added>>
    /\ LogState
    /\ UNCHANGED sideVars

\* mutant: the state is left as it is
FinishStateKept == state

\* _finish, line 666: self.state = WhisprState.IDLE
FinishState == IDLE

\* _finish, lines 663-666: the idle callback starts and sets the state
finish_begin ==
    /\ mainpc = "loop"
    /\ idle_queue # <<>>
    /\ idle_queue' = Tail(idle_queue)
    /\ mainArg' = Some(Head(idle_queue))
    /\ mainpc' = "finish"
    /\ state' = FinishState
    /\ finishLog' = Append(finishLog, Head(idle_queue))
    /\ UNCHANGED <<trigger_pressed, key_press_time, activation_source,
                   transcription_history, hold_duration, recorderVars, timers, workers,
                   sinkVars, envVars, keyEvents, toggles, pressNo, session,
                   startLog, stopLog, transcribeLog, allEarly, added>>
    /\ LogState
    /\ UNCHANGED sideVars

\* _finish, lines 667-699; notifyRaises: notify-send exits non-zero, and the
\* CalledProcessError of check=True leaves _notify and ends the callback.
\* The delivery of lines 684-692 writes the clipboard and the keyboard only,
\* which the engine never reads: it is modelled in finish_success below.
finish_end ==
    /\ mainpc = "finish"
    /\ key_press_time' = None
    /\ tray_state' = TrayName(state)
    /\ \E notifyRaises \in BOOLEAN :
        LET a == Val(mainArg) IN
        IF a.error # None
        THEN /\ lastNotify' = Some(<<"Error: ", Val(a.error)>>)
             /\ lastSound' = IF notifyRaises THEN lastSound ELSE Some("error")
             /\ UNCHANGED <<transcription_history, added>>
        ELSE IF a.text = None \/ NoText(Val(a.text))
        THEN /\ lastNotify' = Some(<<"No speech detected">>)
             /\ UNCHANGED <<lastSound, transcription_history, added>>
        ELSE /\ transcription_history' = add_transcription(transcription_history, Val(a.text))
             /\ added' = Append(added, Val(a.text))
             /\ lastSound' = Some("success")
             /\ lastNotify' = Some(<<Val(a.text)>>)
    /\ mainpc' = "loop"
    /\ mainArg' = None
    /\ UNCHANGED <<state, trigger_pressed, activation_source, hold_duration, recorderVars,
                   timers, idle_queue, workers, envVars, keyEvents, toggles,
                   pressNo, session, stateLog, startLog, stopLog, transcribeLog,
                   finishLog, allEarly>>
    /\ UNCHANGED sideVars

\* clear_transcription_history, from the tray menu on the main loop
clear_transcription_history ==
    /\ mainpc = "loop"
    /\ transcription_history' = <<>>
    /\ added' = <<>>
    /\ UNCHANGED <<state, trigger_pressed, key_press_time, activation_source,
                   hold_duration, recorderVars, loopVars, workers, sinkVars, envVars,
                   keyEvents, toggles, pressNo, session, stateLog, startLog, stopLog,
                   transcribeLog, finishLog, allEarly>>
    /\ UNCHANGED sideVars

\* time passes
Tick ==
    /\ now < MaxTime
    /\ now' = now + 1
    /\ UNCHANGED <<whisprVars, recorderVars, loopVars, workers, sinkVars, downSince, logVars>>
    /\ UNCHANGED sideVars

KeyPress ==
    \E k \in Keys : keyEvents < MaxKeyEvents /\ on_key_press(k) /\ UNCHANGED busy_held
KeyRelease ==
    \E k \in Keys : keyEvents < MaxKeyEvents /\ on_key_release(k) /\ UNCHANGED busy_held

Next ==
    \/ KeyPress
    \/ KeyRelease
    \/ timeout_dispatch
    \/ check_activation_clear
    \/ check_activation_locked
    \/ toggle_recording
    \/ transcribe_file
    \/ finish_begin
    \/ finish_end
    \/ clear_transcription_history
    \/ Tick

Spec == Init /\ [][Next]_vars

\* ------------------------------ the listener and the activation timer alone
\* one trigger key is pressed and released; nothing else drives the engine
TimerKeys == {"alt"}

TimerKeyPress ==
    \E k \in TimerKeys :
        keyEvents < MaxTimerKeyEvents /\ on_key_press(k) /\ UNCHANGED busy_held
TimerKeyRelease ==
    \E k \in TimerKeys :
        keyEvents < MaxTimerKeyEvents /\ on_key_release(k) /\ UNCHANGED busy_held

TimerNext ==
    \/ TimerKeyPress
    \/ TimerKeyRelease
    \/ timeout_dispatch
    \/ check_activation_clear
    \/ check_activation_locked
    \/ Tick

TimerSpec == Init /\ [][TimerNext]_vars

\* ------------------------------------- the engine, and the keys held since
\* the engine of Spec, where the run also keeps which trigger keys went down
\* while the engine was Recording or Transcribing and have not come up since
Busy == state \in {RECORDING, TRANSCRIBING}

HeldKeyPress ==
    \E k \in Keys :
        /\ keyEvents < MaxKeyEvents
        /\ on_key_press(k)
        /\ busy_held' = IF downSince[k] = None /\ Busy THEN busy_held \cup {k}
                        ELSE busy_held

HeldKeyRelease ==
    \E k \in Keys :
        /\ keyEvents < MaxKeyEvents
        /\ on_key_release(k)
        /\ busy_held' = busy_held \ {k}

HeldNext ==
    \/ HeldKeyPress
    \/ HeldKeyRelease
    \/ timeout_dispatch
    \/ check_activation_clear
    \/ check_activation_locked
    \/ toggle_recording
    \/ transcribe_file
    \/ finish_begin
    \/ finish_end
    \/ Tick

HeldSpec == Init /\ [][HeldNext]_vars

\* -------------------------------------------------- the engine with its lock
\* `with self._lock:` of _on_key_press and _on_key_release (lines 544, 568,
\* thread "listener", taken for "press" and "release"), of _check_activation
\* (line 586) and of toggle_recording (line 505) (thread "main", taken for
\* "check" and "toggle").  The holder keeps what the counters were when the
\* lock was taken: the handler has run once one of them has moved.
Holder(thread, what) ==
    [thread |-> thread, what |-> what, events |-> keyEvents, toggles |-> toggles,
     starts |-> Len(startLog), stops |-> Len(stopLog)]

\* the body of the with statement has been executed
BodyDone ==
    \/ keyEvents # Val(lock_holder).events
    \/ toggles # Val(lock_holder).toggles
    \/ Val(lock_holder).what = "check" /\ mainpc = "loop"

\* the thread is inside its with statement and has not executed the body
Holding(what) ==
    IF lock_holder = None THEN FALSE ELSE Val(lock_holder).what = what /\ ~BodyDone

\* the main loop is not inside a with statement of its own
MainFree == IF lock_holder = None THEN TRUE ELSE Val(lock_holder).thread # "main"

\* mutant: _stop_recording takes the lock as well
TakesLockAlsoStop ==
    {"toggle_recording", "_on_key_press", "_on_key_release", "_check_activation",
     "_stop_recording"}

\* the methods with a `with self._lock:` statement, lines 505, 544, 568, 586
TakesLock == {"toggle_recording", "_on_key_press", "_on_key_release", "_check_activation"}

\* what _start_recording (lines 603-622) and _stop_recording (lines 624-643)
\* call in their turn; _finish is handed to the main loop, not called
Called(op) ==
    CASE op = "_start_recording" ->
            {"_update_tray_state", "AudioRecorder.start", "_play_sound"}
      [] op = "_stop_recording" -> {"_update_tray_state", "AudioRecorder.stop"}
      [] OTHER -> {}

\* what the body of each with statement calls in the state it finds
ReleaseCalls == IF state = RECORDING THEN {"_stop_recording"} ELSE {}
CheckCalls ==
    IF state = WAITING /\ trigger_pressed /\ key_press_time # None
    THEN {"_start_recording"} ELSE {}
ToggleCalls ==
    IF state = IDLE THEN {"_start_recording"}
    ELSE IF state = RECORDING THEN {"_stop_recording"}
    ELSE {}

\* the body can run to its end: nothing it calls asks for the lock, which
\* is not reentrant and which its own thread holds
RunsThrough(ops) == (ops \cup UNION {Called(op) : op \in ops}) \cap TakesLock = {}

\* self._lock.__enter__: the lock is taken when it is free
lock_acquire(thread, what) ==
    /\ lock_holder = None
    /\ what = "press" => thread = "listener" /\ keyEvents < MaxKeyEvents
    /\ what = "release" =>
        /\ thread = "listener" /\ keyEvents < MaxKeyEvents
        /\ \E k \in TimerKeys : downSince[k] # None
    /\ what = "check" => thread = "main" /\ mainpc = "check_activation_locked"
    /\ what = "toggle" => thread = "main" /\ mainpc = "loop" /\ toggles < MaxToggles
    /\ lock_holder' = Some(Holder(thread, what))
    /\ UNCHANGED <<whisprVars, recorderVars, loopVars, workers, sinkVars, envVars, logVars,
                   snapshot, cleanVars, backendVars, callVars, monitorVars, busy_held,
                   stop_result, pasteVars>>

\* self._lock.__exit__, when the body has returned or raised
lock_release ==
    /\ lock_holder # None
    /\ BodyDone
    /\ lock_holder' = None
    /\ UNCHANGED <<whisprVars, recorderVars, loopVars, workers, sinkVars, envVars, logVars,
                   snapshot, cleanVars, backendVars, callVars, monitorVars, busy_held,
                   stop_result, pasteVars>>

LockAcquire ==
    \/ lock_acquire("listener", "press")
    \/ lock_acquire("listener", "release")
    \/ lock_acquire("main", "check")
    \/ lock_acquire("main", "toggle")

LockedKeyPress ==
    \E k \in TimerKeys : Holding("press") /\ on_key_press(k) /\ UNCHANGED busy_held
LockedKeyRelease ==
    \E k \in TimerKeys :
        /\ Holding("release")
        /\ RunsThrough(ReleaseCalls)
        /\ on_key_release(k)
        /\ UNCHANGED busy_held
LockedCheckActivation ==
    Holding("check") /\ RunsThrough(CheckCalls) /\ check_activation_locked
LockedToggle == Holding("toggle") /\ RunsThrough(ToggleCalls) /\ toggle_recording
MainTimeoutDispatch == MainFree /\ timeout_dispatch
MainCheckActivationClear == MainFree /\ check_activation_clear
MainFinishBegin == MainFree /\ finish_begin
MainFinishEnd == MainFree /\ finish_end

LockNext ==
    \/ LockAcquire
    \/ LockedKeyPress
    \/ LockedKeyRelease
    \/ LockedCheckActivation
    \/ LockedToggle
    \/ lock_release
    \/ MainTimeoutDispatch
    \/ MainCheckActivationClear
    \/ MainFinishBegin
    \/ MainFinishEnd
    \/ transcribe_file
    \/ Tick

LockSpec == Init /\ [][LockNext]_vars

\* ------------------------------------------- the history, called directly
\* texts handed to add_transcription
HistTexts == {<<"a">>, <<"b">>, <<>>}

\* add_transcription(text), lines 433-441
add_call(text) ==
    /\ Len(added) < MaxAdds
    /\ transcription_history' = add_transcription(transcription_history, text)
    /\ added' = IF text # <<>> THEN Append(added, text) ELSE added
    /\ UNCHANGED <<state, trigger_pressed, key_press_time, activation_source,
                   hold_duration, recorderVars, loopVars, workers, sinkVars, envVars,
                   keyEvents, toggles, pressNo, session, stateLog, startLog, stopLog,
                   transcribeLog, finishLog, allEarly>>
    /\ UNCHANGED sideVars

AddCall == \E text \in HistTexts : add_call(text)

HistNext ==
    \/ AddCall
    \/ clear_transcription_history

HistSpec == Init /\ [][HistNext]_vars

\* ------------------------------------- the history and a caller's snapshot
\* a Python list is an object: `shared` tells whether the list the caller
\* holds is the engine's own list object, `items` is what it holds

\* mutant: the engine's own list is returned
returned_self(h) == [shared |-> TRUE, items |-> h]

\* line 431: self._transcription_history.copy()
returned_copy(h) == [shared |-> FALSE, items |-> h]

\* get_recent_transcriptions, lines 429-431
get_recent_transcriptions ==
    /\ snapshot' = Some(returned_copy(transcription_history))
    /\ UNCHANGED <<whisprVars, recorderVars, loopVars, workers, sinkVars, envVars, logVars,
                   cleanVars, callVars, lock_holder, monitorVars, busy_held, backendVars, stop_result, pasteVars>>

\* what a caller can make of the list it holds: clear(), pop(0), append(x)
ChangedLists(items) ==
    {<<>>} \cup (IF items # <<>> THEN {Tail(items)} ELSE {})
           \cup (IF Len(items) <= MaxSnapAdds THEN {Append(items, <<"x">>)} ELSE {})

\* the caller changes the list it was handed; a change of a list object is
\* seen through every reference to it
caller_changes_returned ==
    /\ snapshot # None
    /\ \E l \in ChangedLists(Val(snapshot).items) :
        /\ snapshot' = Some([Val(snapshot) EXCEPT !.items = l])
        /\ transcription_history' =
               IF Val(snapshot).shared THEN l ELSE transcription_history
    /\ UNCHANGED <<state, trigger_pressed, key_press_time, activation_source,
                   hold_duration, recorderVars, loopVars, workers, sinkVars, envVars,
                   logVars, cleanVars, callVars, lock_holder, monitorVars, busy_held, backendVars, stop_result, pasteVars>>

\* add_transcription(text), a bounded number of times between two clears
snap_add(text) ==
    /\ Len(added) < MaxSnapAdds
    /\ add_call(text)

SnapAdd == \E text \in HistTexts : snap_add(text)

SnapNext ==
    \/ SnapAdd
    \/ clear_transcription_history
    \/ get_recent_transcriptions
    \/ caller_changes_returned

SnapSpec == Init /\ [][SnapNext]_vars

\* ------------------------------------------------- _clean_text on its own
\* characters of the texts: both kinds of delimiters, white space, a letter
CleanAlphabet == {"(", ")", "[", "]", " ", "a"}

\* every text of at most MaxCleanLen characters
CleanTexts == UNION {[1..n -> CleanAlphabet] : n \in 0..MaxCleanLen}

CleanInit ==
    /\ EngineInit
    /\ SnapIdle
    /\ clean_in \in CleanTexts
    /\ clean_once = None
    /\ clean_twice = None
    /\ BackendDefaults
    /\ CallIdle
    /\ LockFree
    /\ MonitorIdle
    /\ NoBusyHeld
    /\ stop_result = None
    /\ PasteDefaults

\* _clean_text(text)
clean_first ==
    /\ clean_once = None
    /\ clean_once' = Some(clean_text(clean_in))
    /\ UNCHANGED <<whisprVars, recorderVars, loopVars, workers, sinkVars, envVars, logVars,
                   snapshot, clean_in, clean_twice, callVars, lock_holder, monitorVars, busy_held, backendVars, stop_result, pasteVars>>

\* _clean_text of what _clean_text returned
clean_again ==
    /\ clean_once # None
    /\ clean_twice = None
    /\ clean_twice' = Some(clean_text(Val(clean_once)))
    /\ UNCHANGED <<whisprVars, recorderVars, loopVars, workers, sinkVars, envVars, logVars,
                   snapshot, clean_in, clean_once, callVars, lock_holder, monitorVars, busy_held, backendVars,
                   stop_result, pasteVars>>

CleanNext ==
    \/ clean_first
    \/ clean_again

CleanSpec == CleanInit /\ [][CleanNext]_vars

\* ------------------------------------------ Transcriber.transcribe, backend
ApiKeys == {"", "sk-1"}
ServerAddresses == {"", "127.0.0.1:58080"}
BackendNames == {"local", "server", "openai"}

\* WhisprConfig.load: the file may set any of the fields
BackendInit ==
    /\ EngineInit
    /\ SnapIdle
    /\ CleanIdle
    /\ use_openai \in BOOLEAN
    /\ openai_api_key \in ApiKeys
    /\ whisper_server \in ServerAddresses
    /\ env_api_key \in ApiKeys
    /\ backendLog = <<>>
    /\ CallIdle
    /\ LockFree
    /\ MonitorIdle
    /\ NoBusyHeld
    /\ stop_result = None
    /\ PasteDefaults

\* mutant: a server address is looked at before the use_openai flag
SelectBackendServerFirst ==
    IF whisper_server # "" THEN "server"
    ELSE IF use_openai THEN "openai"
    ELSE "local"

\* transcribe, lines 261-266: if use_openai / elif whisper_server / else
SelectBackend ==
    IF use_openai THEN "openai"
    ELSE IF whisper_server # "" THEN "server"
    ELSE "local"

\* _transcribe_openai, lines 352-354: the key of the configuration, else the
\* key of the environment; with neither the call raises
ResolvedKey == IF openai_api_key # "" THEN openai_api_key ELSE env_api_key

\* Transcriber.transcribe(audio_path): the backend methods entered, the
\* configuration they were chosen under, and whether the call raised for
\* want of an API key
transcribe_call ==
    /\ Len(backendLog) < MaxCalls
    /\ backendLog' = Append(backendLog,
            [entered |-> <<SelectBackend>>,
             use_openai |-> use_openai,
             openai_api_key |-> openai_api_key,
             whisper_server |-> whisper_server,
             no_key |-> SelectBackend = "openai" /\ ResolvedKey = ""])
    /\ UNCHANGED <<whisprVars, recorderVars, loopVars, workers, sinkVars, envVars, logVars,
                   snapshot, cleanVars, callVars, lock_holder, monitorVars, busy_held, use_openai, openai_api_key, whisper_server,
                   env_api_key, stop_result, pasteVars>>

\* settings dialog: a backend radio button is chosen and the change applied
\* (_on_backend_changed, then _apply_changes)
on_backend_changed(backend) ==
    /\ use_openai' = (backend = "openai")
    /\ whisper_server' = IF backend = "local" THEN "" ELSE whisper_server
    /\ UNCHANGED <<whisprVars, recorderVars, loopVars, workers, sinkVars, envVars, logVars,
                   snapshot, cleanVars, callVars, lock_holder, monitorVars, busy_held, openai_api_key, env_api_key, backendLog,
                   stop_result, pasteVars>>

\* settings dialog: the server address is edited and the change applied
on_server_changed(addr) ==
    /\ whisper_server' = addr
    /\ UNCHANGED <<whisprVars, recorderVars, loopVars, workers, sinkVars, envVars, logVars,
                   snapshot, cleanVars, callVars, lock_holder, monitorVars, busy_held, use_openai, openai_api_key, env_api_key,
                   backendLog, stop_result, pasteVars>>

\* settings dialog: the API key is edited and the change applied
on_api_key_changed(key) ==
    /\ openai_api_key' = key
    /\ UNCHANGED <<whisprVars, recorderVars, loopVars, workers, sinkVars, envVars, logVars,
                   snapshot, cleanVars, callVars, lock_holder, monitorVars, busy_held, use_openai, whisper_server, env_api_key,
                   backendLog, stop_result, pasteVars>>

BackendChanged == \E backend \in BackendNames : on_backend_changed(backend)
ServerChanged == \E addr \in ServerAddresses : on_server_changed(addr)
ApiKeyChanged == \E key \in ApiKeys : on_api_key_changed(key)

BackendNext ==
    \/ transcribe_call
    \/ BackendChanged
    \/ ServerChanged
    \/ ApiKeyChanged

BackendSpec == BackendInit /\ [][BackendNext]_vars

\* ------------------------------ Transcriber.transcribe, the backend called
\* a Python str as the sequence of its characters
Chars(s) == [i \in 1..Len(s) |-> SubSeq(s, i, i)]

\* str.lower() of one character
Lower(c) ==
    IF \E l \in DOMAIN UpperOf : UpperOf[l] = c
    THEN CHOOSE l \in DOMAIN UpperOf : UpperOf[l] = c
    ELSE c

\* str.lower()
LowerStr(s) == [i \in 1..Len(s) |-> Lower(s[i])]

\* s.startswith(p)
StartsWith(s, p) == Len(s) >= Len(p) /\ SubSeq(s, 1, Len(p)) = p

\* sub in s
Contains(s, sub) ==
    \E i \in 1..(Len(s) - Len(sub) + 1) : SubSeq(s, i, i + Len(sub) - 1) = sub

\* str.splitlines(): the lines without their line ends, no last empty line
RECURSIVE SplitLines(_)
SplitLines(s) ==
    IF s = <<>> THEN <<>>
    ELSE IF FirstAt(s, "\n", 1) = 0 THEN <<s>>
    ELSE <<SubSeq(s, 1, FirstAt(s, "\n", 1) - 1)>>
         \o SplitLines(SubSeq(s, FirstAt(s, "\n", 1) + 1, Len(s)))

\* "\n".join(lines)
RECURSIVE JoinLines(_)
JoinLines(lines) ==
    IF lines = <<>> THEN <<>>
    ELSE IF Len(lines) = 1 THEN lines[1]
    ELSE lines[1] \o <<"\n">> \o JoinLines(Tail(lines))

\* what a process printed: every line with its line end
RECURSIVE Printed(_)
Printed(lines) ==
    IF lines = <<>> THEN <<>> ELSE lines[1] \o <<"\n">> \o Printed(Tail(lines))

\* _transcribe_local, line 271: the executables tried, in this order
LocalCommands == <<"transcribe", "whisper-cli", "whisper">>

\* `cmd --help`: FileNotFoundError; exit 0 or "usage" on stderr; neither
ProbeResults == {"missing", "usable", "unusable"}

\* line 317: the prefixes of the lines the engine logs
LogPrefixes == {Chars("whisper_"), Chars("system_info"), Chars("main:")}

\* mutant: any mention of an error or of a failure counts
ErrorMarkersLoose == {Chars("error"), Chars("failed"), Chars("could not open")}

\* lines 299-303: what marks an error on stderr, in lower case
ErrorMarkers == {Chars("error:"), Chars("failed to read"), Chars("could not open")}

\* has_error, lines 298-303
HasError(stderr) == \E m \in ErrorMarkers : Contains(LowerStr(stderr), m)

\* line 317: line.startswith(("whisper_", "system_info", "main:"))
IsLogLine(line) == \E p \in LogPrefixes : StartsWith(line, p)

\* line 320: line.strip().startswith("[")
IsTimestampLine(line) == StartsWith(Strip(line), <<"[">>)

NotLogLine(line) == ~IsLogLine(line)
NotTimestampLine(line) == ~IsTimestampLine(line)

\* lines 312-321: stdout, or when it is blank the lines of stderr that are
\* neither logs nor timestamps
LocalOutput(stdout, stderr) ==
    IF Strip(stdout) # <<>> THEN stdout
    ELSE JoinLines(SelectSeq(SelectSeq(SplitLines(stderr), NotLogLine), NotTimestampLine))

\* lines the local engine may print on stderr
StderrLines ==
    {Chars("whisper_init: ok"), Chars("system_info: n = 8"), Chars("main: run"),
     Chars("  [00:00] yo"), Chars("hi there"), Chars(" main: x"),
     Chars("Error: no file"), Chars("0 errors"),
     Chars("failed to read x"), Chars("could not open x")}

Stderrs == {Printed(ls) : ls \in UNION {[1..n -> StderrLines] : n \in 0..MaxStderrLines}}
Stdouts == {<<>>, Chars(" \n"), Chars(" hello\n")}
ExitCodes == {0, 1}

\* how the curl command may end: a response, a transport failure, no curl
CurlOutcomes == {"ok", "nonzero", "missing"}

\* what curl may print: text that is not JSON, a JSON object with a "text"
\* member, a JSON object without one, a JSON value that is not an object
Bodies ==
    {[kind |-> "text", text |-> None, raw |-> <<>>],
     [kind |-> "text", text |-> None, raw |-> Chars(" hello\n")],
     [kind |-> "object", text |-> Some(Chars(" hello")), raw |-> Chars("{text: hello}")],
     [kind |-> "object", text |-> None, raw |-> Chars("{error: 401}")],
     [kind |-> "value", text |-> None, raw |-> Chars("401")]}

AllUsable == [i \in 1..3 |-> "usable"]
AllMissing == [i \in 1..3 |-> "missing"]

\* every way the probes may end with one plain run, and every run of the
\* first executable
LocalEnvs ==
    {[probes |-> pr, rc |-> 0, stdout |-> Chars(" hello\n"), stderr |-> <<>>,
      curl |-> "missing", body |-> CHOOSE b \in Bodies : b.raw = <<>>] :
        pr \in [1..3 -> ProbeResults]}
    \cup
    {[probes |-> AllUsable, rc |-> rc, stdout |-> out, stderr |-> err,
      curl |-> "missing", body |-> CHOOSE b \in Bodies : b.raw = <<>>] :
        rc \in ExitCodes, out \in Stdouts, err \in Stderrs}

CurlEnvs ==
    {[probes |-> AllMissing, rc |-> 1, stdout |-> <<>>, stderr |-> <<>>,
      curl |-> c, body |-> b] : c \in CurlOutcomes, b \in Bodies}

\* the error messages of the RuntimeErrors, up to their first colon or stop
NoBackendFound == "No whisper.cpp found"
LocalFailed == "Transcription failed"
ServerFailed == "Server transcription failed"
OpenAIFailed == "OpenAI transcription failed"
NoApiKey == "OpenAI API key not configured"

\* a command a backend method started
Run(backend, cmd, what) == [backend |-> backend, cmd |-> cmd, what |-> what]

\* the call returned a text; the call raised
Returned(runs, text) == [runs |-> runs, error |-> None, text |-> Some(text)]
Raised(runs, label) == [runs |-> runs, error |-> Some(label), text |-> None]

\* lines 271-278: the index of the first executable whose probe is usable
Found(probes) ==
    IF \E i \in 1..3 : probes[i] = "usable"
    THEN CHOOSE i \in 1..3 : probes[i] = "usable" /\ \A j \in 1..(i - 1) : probes[j] # "usable"
    ELSE 0

\* the `--help` runs up to the executable that is chosen
ProbeRuns(probes) ==
    [i \in 1..(IF Found(probes) = 0 THEN 3 ELSE Found(probes)) |->
        Run("local", LocalCommands[i], "probe")]

\* _transcribe_local, lines 268-325
transcribe_local(env) ==
    IF Found(env.probes) = 0 THEN Raised(ProbeRuns(env.probes), NoBackendFound)
    ELSE LET runs == ProbeRuns(env.probes)
                     \o <<Run("local", LocalCommands[Found(env.probes)], "transcribe")>>
         IN IF env.rc # 0 \/ HasError(env.stderr) THEN Raised(runs, LocalFailed)
            ELSE Returned(runs, clean_text(LocalOutput(env.stdout, env.stderr)))

\* mutant: a failed upload is tried once more
OnCurlFailureRetry(runs, label) == Raised(runs \o runs, label)

\* lines 345-346 and 370-371: a non-zero exit of curl raises
OnCurlFailure(runs, label) == Raised(runs, label)

\* _transcribe_server, lines 327-348
transcribe_server(env) ==
    LET runs == <<Run("server", "curl", "upload")>> IN
    IF env.curl = "missing" THEN Raised(runs, "FileNotFoundError")
    ELSE IF env.curl = "nonzero" THEN OnCurlFailure(runs, ServerFailed)
    ELSE Returned(runs, clean_text(env.body.raw))

\* _transcribe_openai, lines 350-379
transcribe_openai(env) ==
    LET runs == <<Run("openai", "curl", "upload")>> IN
    IF ResolvedKey = "" THEN Raised(<<>>, NoApiKey)
    ELSE IF env.curl = "missing" THEN Raised(runs, "FileNotFoundError")
    ELSE IF env.curl = "nonzero" THEN OnCurlFailure(runs, OpenAIFailed)
    ELSE IF env.body.kind = "text" THEN Returned(runs, clean_text(env.body.raw))
    ELSE IF env.body.kind = "value" THEN Raised(runs, "AttributeError")
    ELSE Returned(runs, clean_text(IF env.body.text = None THEN <<>> ELSE Val(env.body.text)))

\* Transcriber.transcribe, lines 259-266, with the backend method it calls
Transcribe(env) ==
    CASE SelectBackend = "openai" -> transcribe_openai(env)
      [] SelectBackend = "server" -> transcribe_server(env)
      [] OTHER -> transcribe_local(env)

\* any configuration, and what the commands of its backend may do
TranscribeInit ==
    /\ EngineInit
    /\ SnapIdle
    /\ CleanIdle
    /\ use_openai \in BOOLEAN
    /\ openai_api_key \in ApiKeys
    /\ whisper_server \in ServerAddresses
    /\ env_api_key \in ApiKeys
    /\ backendLog = <<>>
    /\ backend_env \in {Some(e) : e \in IF SelectBackend = "local" THEN LocalEnvs ELSE CurlEnvs}
    /\ transcribe_result = None
    /\ LockFree
    /\ MonitorIdle
    /\ NoBusyHeld
    /\ stop_result = None
    /\ PasteDefaults

\* self.transcriber.transcribe(wav_path)
transcribe ==
    /\ transcribe_result = None
    /\ transcribe_result' = Some(Transcribe(Val(backend_env)))
    /\ UNCHANGED <<whisprVars, recorderVars, loopVars, workers, sinkVars, envVars, logVars,
                   snapshot, cleanVars, backendVars, backend_env, lock_holder, monitorVars, busy_held, stop_result, pasteVars>>

TranscribeNext == transcribe

TranscribeSpec == TranscribeInit /\ [][TranscribeNext]_vars

\* ------------------------------------------------ AudioRecorder on its own
\* self.temp_wav, the fixed path of the output file
TempWavPath == "/dev/shm/whispr_rec.wav"

\* AudioRecorder.start, lines 201-227, with a level callback as the engine
\* passes one; ok = FALSE: Popen raises, after is_recording was set and
\* before the monitor_level thread is created.  The engine starts a capture
\* only when none runs.
recorder_start(ok) ==
    /\ session < MaxStarts
    /\ ~is_recording
    /\ is_recording' = TRUE
    /\ rec_process' = IF ok THEN Some(session + 1) ELSE rec_process
    /\ session' = session + 1
    /\ stop_result' = None
    /\ monitors' = IF ok THEN monitors \cup {session + 1} ELSE monitors
    /\ UNCHANGED <<whisprVars, temp_wav, loopVars, workers, sinkVars, envVars,
                   keyEvents, toggles, pressNo, stateLog, startLog, stopLog,
                   transcribeLog, finishLog, allEarly, added, levelLog, snapshot,
                   cleanVars, callVars, lock_holder, busy_held, backendVars, pasteVars>>

\* mutant: the handle is dropped only when the process exited by itself
ProcessAfterKill(timedOut) == IF timedOut THEN rec_process ELSE None

\* stop, line 240: the handle is dropped after the try statement, whether
\* wait() returned or timed out and kill() was called
ProcessAfterStop(timedOut) == None

\* how stop() went: no process to stop, wait() returned, or wait() timed
\* out and the process was killed
StopPath(timedOut) ==
    IF rec_process = None THEN "no process"
    ELSE IF timedOut THEN "killed"
    ELSE "exited"

\* lines 245-250: the path when the file exists and is large enough
StopReturn(f) == IF Viable(f) THEN Some(TempWavPath) ELSE None

\* AudioRecorder.stop, lines 229-250; timedOut: wait(timeout=2) raises
\* TimeoutExpired; f: the output file when its size is read
recorder_stop(timedOut, f) ==
    /\ timedOut => rec_process # None
    /\ is_recording' = FALSE
    /\ rec_process' = IF rec_process # None THEN ProcessAfterStop(timedOut) ELSE rec_process
    /\ temp_wav' = f
    /\ stop_result' = Some([path |-> StopPath(timedOut), file |-> f,
                            returned |-> StopReturn(f)])
    /\ UNCHANGED <<whisprVars, loopVars, workers, sinkVars, envVars, logVars,
                   snapshot, cleanVars, callVars, lock_holder, monitorVars, busy_held, backendVars, pasteVars>>

RecorderStart == \E ok \in BOOLEAN : recorder_start(ok)
RecorderStop == \E timedOut \in BOOLEAN : \E f \in StopFiles : recorder_stop(timedOut, f)

\* one turn of the loop of monitor_level, lines 218-224, in the thread that
\* start() number m created: the flag is read; when it is set a level is
\* handed to the main loop, otherwise the thread ends.  The flag is the
\* recorder's, not the thread's: time.sleep(0.05) may last longer than asked,
\* so the turn may come at any time.
monitor_level(m) ==
    /\ m \in monitors
    /\ IF is_recording
       THEN /\ Len(levelLog) < MaxLevels
            /\ levelLog' = Append(levelLog, [thread |-> m, session |-> session])
            /\ monitors' = monitors
       ELSE /\ monitors' = monitors \ {m}
            /\ levelLog' = levelLog
    /\ UNCHANGED <<whisprVars, recorderVars, loopVars, workers, sinkVars, envVars, logVars,
                   snapshot, cleanVars, callVars, lock_holder, busy_held, backendVars,
                   stop_result, pasteVars>>

MonitorLevel == \E m \in 1..MaxStarts : monitor_level(m)

RecNext ==
    \/ RecorderStart
    \/ RecorderStop
    \/ MonitorLevel

RecSpec == Init /\ [][RecNext]_vars

\* --------------------------------------- the delivery of a transcribed text
\* what the clipboard may hold: nothing, what the user copied before, what
\* the user copies meanwhile
OldClip == <<"o", "l", "d">>
NewClip == <<"n", "e", "w">>
ClipboardTexts == {<<>>, OldClip, NewClip}

\* cleaned texts a transcription hands to _finish
DeliveredTexts == {<<"H", "i">>}

XselIn == "xsel -ib"
Xclip == "xclip -selection clipboard"
KeyUp == "xdotool keyup ctrl alt shift super Print"
TerminalPaste == "xdotool key ctrl+shift+v"
GenericPaste == "xdotool key --clearmodifiers ctrl+v"
TypeText == "xdotool type"

\* WhisprConfig.load: the file may set either flag
PasteInit ==
    /\ EngineInit
    /\ SnapIdle
    /\ CleanIdle
    /\ BackendDefaults
    /\ CallIdle
    /\ LockFree
    /\ MonitorIdle
    /\ NoBusyHeld
    /\ stop_result = None
    /\ auto_paste \in BOOLEAN
    /\ copy_to_clipboard \in BOOLEAN
    /\ clipboard \in {<<>>, OldClip}
    /\ NothingDelivered

\* a command that was run, its standard input, and whether it succeeded
Ran(cmd, input, ok) == [cmd |-> cmd, input |-> input, ok |-> ok]

\* mutant: _paste is scheduled whatever the flags are
DeliveryAlwaysPaste == "paste"

\* _finish, lines 685-692: if auto_paste / elif copy_to_clipboard
Delivery ==
    IF auto_paste THEN "paste"
    ELSE IF copy_to_clipboard THEN "copy"
    ELSE "none"

\* _copy_to_clipboard, lines 701-709: xsel, and xclip when xsel fails
CopyCommands(text, xselOk, xclipOk) ==
    IF xselOk THEN <<Ran(XselIn, text, TRUE)>>
    ELSE <<Ran(XselIn, text, FALSE), Ran(Xclip, text, xclipOk)>>

\* _finish(text), lines 661-699, for a text that is not empty: the history,
\* the delivery, the success sound and the notification
finish_success(text) ==
    /\ state' = IDLE
    /\ key_press_time' = None
    /\ tray_state' = TrayName(IDLE)
    /\ transcription_history' = add_transcription(transcription_history, text)
    /\ added' = Append(added, text)
    /\ IF Delivery = "paste"
       THEN /\ paste_timers' = paste_timers \cup {[n |-> Len(added) + 1, text |-> text]}
            /\ UNCHANGED <<clipboard, cmdLog>>
       ELSE IF Delivery = "copy"
       THEN /\ \E xselOk, xclipOk \in BOOLEAN :
                /\ cmdLog' = cmdLog \o CopyCommands(text, xselOk, xclipOk)
                /\ clipboard' = IF xselOk \/ xclipOk THEN text ELSE clipboard
            /\ UNCHANGED paste_timers
       ELSE UNCHANGED <<paste_timers, clipboard, cmdLog>>
    /\ lastSound' = Some("success")
    /\ lastNotify' = Some(<<text>>)
    /\ LogState
    /\ UNCHANGED <<trigger_pressed, activation_source, hold_duration, recorderVars,
                   loopVars, workers, envVars, keyEvents, toggles, pressNo, session,
                   startLog, stopLog, transcribeLog, allEarly, snapshot, cleanVars,
                   callVars, lock_holder, monitorVars, busy_held, backendVars, stop_result,
                   auto_paste, copy_to_clipboard, restore_threads, pasteLog>>

\* _finish(text), lines 661-677, for a text that is empty: the notification
\* and nothing else
finish_no_speech ==
    /\ state' = IDLE
    /\ key_press_time' = None
    /\ tray_state' = TrayName(IDLE)
    /\ lastNotify' = Some(<<"No speech detected">>)
    /\ LogState
    /\ UNCHANGED <<trigger_pressed, activation_source, transcription_history,
                   hold_duration, recorderVars, loopVars, workers, lastSound, envVars,
                   keyEvents, toggles, pressNo, session, startLog, stopLog,
                   transcribeLog, allEarly, added, sideVars>>

\* _finish(text) for the text of a backend call that returned
finish(text) ==
    /\ Len(finishLog) < MaxDeliveries
    /\ finishLog' = Append(finishLog, [session |-> 0, text |-> Some(text), error |-> None])
    /\ IF NoText(text) THEN finish_no_speech ELSE finish_success(text)

\* how a command run by subprocess.run may end
Outcomes == {"ok", "missing", "nonzero", "timeout"}

\* subprocess.run(cmd, check=..., timeout=...): the exception the call raises
RunRaises(outcome, check) ==
    CASE outcome = "missing" -> "FileNotFoundError"
      [] outcome = "timeout" -> "TimeoutExpired"
      [] outcome = "nonzero" /\ check -> "CalledProcessError"
      [] OTHER -> "none"

\* mutant: the handler of TimeoutExpired is missing
PasteHandlersNoTimeout == {"FileNotFoundError", "CalledProcessError"}

\* _paste, lines 897-902: the except clauses of the try statement
PasteHandlers == {"FileNotFoundError", "CalledProcessError", "TimeoutExpired"}

\* the commands of one _paste call, lines 783-884, in the order they are run.
\* Both branches take the same steps and differ in the shortcut alone.
\* keyupOk = FALSE: the keyup command raises (no xdotool, or a timeout);
\* writeOk = FALSE, keyOk = FALSE: the command raises (check=True)
PasteCommands(text, terminal, keyupOk, writeOk, keyOk) ==
    <<Ran(KeyUp, <<>>, keyupOk)>>
    \o (IF keyupOk THEN <<Ran(XselIn, text, writeOk)>> ELSE <<>>)
    \o (IF keyupOk /\ writeOk
        THEN <<Ran(IF terminal THEN TerminalPaste ELSE GenericPaste, <<>>, keyOk)>>
        ELSE <<>>)

\* _paste(text), lines 774-902, called by the timeout of line 688.
\* terminal: _is_terminal_window(); keyup, snap, write, key: how
\* `xdotool keyup` (check=False), `xsel -ob` (its own try statement, lines
\* 811-821 and 854-864), `xsel -ib` and `xdotool key` (both check=True) end.
\* The log entry keeps how each command that was run ended, the exception
\* that left the try body, the commands whose failure was printed to stderr
\* and whether the exception left _paste.
paste(t, terminal, keyup, snap, write, key) ==
    LET keyupOk == RunRaises(keyup, FALSE) = "none"
        snapOk == snap = "ok"
        writeOk == RunRaises(write, TRUE) = "none"
        keyOk == RunRaises(key, TRUE) = "none"
        wrote == keyupOk /\ writeOk
        done == wrote /\ keyOk
        saved_clipboard == IF keyupOk /\ snapOk THEN Some(clipboard) ELSE None
        restores == done /\ saved_clipboard # None
        raiser == IF ~keyupOk THEN "keyup" ELSE IF ~writeOk THEN "write"
                  ELSE IF ~keyOk THEN "key" ELSE "none"
        raised == IF ~keyupOk THEN RunRaises(keyup, FALSE)
                  ELSE IF ~writeOk THEN RunRaises(write, TRUE)
                  ELSE RunRaises(key, TRUE)
        caught == raised \in PasteHandlers
    IN
    /\ paste_timers' = paste_timers \ {t}
    /\ cmdLog' = cmdLog \o PasteCommands(t.text, terminal, keyupOk, writeOk, keyOk)
    /\ clipboard' = IF wrote THEN t.text ELSE clipboard
    /\ restore_threads' =
           IF restores
           THEN restore_threads \cup {[p |-> Len(pasteLog) + 1, saved |-> Val(saved_clipboard)]}
           ELSE restore_threads
    /\ pasteLog' = Append(pasteLog,
           [n |-> t.n, terminal |-> terminal, before |-> clipboard, wrote |-> wrote,
            done |-> done,
            cmds |-> PasteCommands(t.text, terminal, keyupOk, writeOk, keyOk),
            restored |-> None,
            ended |-> [keyup |-> keyup,
                       snap |-> IF keyupOk THEN snap ELSE "not run",
                       write |-> IF keyupOk THEN write ELSE "not run",
                       key |-> IF wrote THEN key ELSE "not run"],
            raised |-> raised,
            printed |-> IF caught THEN {raiser} ELSE {},
            escaped |-> raised # "none" /\ ~caught])
    /\ UNCHANGED <<whisprVars, recorderVars, loopVars, workers, sinkVars, envVars, logVars,
                   snapshot, cleanVars, callVars, lock_holder, monitorVars, busy_held, backendVars, stop_result,
                   auto_paste, copy_to_clipboard>>

\* restore_clipboard, on its thread after the delay; ok = FALSE: xsel fails
\* and the exception is swallowed.  `restored` is the clipboard once it ran.
restore_clipboard(r, ok) ==
    /\ restore_threads' = restore_threads \ {r}
    /\ cmdLog' = Append(cmdLog, Ran(XselIn, r.saved, ok))
    /\ clipboard' = IF ok THEN r.saved ELSE clipboard
    /\ pasteLog' = [pasteLog EXCEPT ![r.p].restored = Some(clipboard')]
    /\ UNCHANGED <<whisprVars, recorderVars, loopVars, workers, sinkVars, envVars, logVars,
                   snapshot, cleanVars, callVars, lock_holder, monitorVars, busy_held, backendVars, stop_result,
                   auto_paste, copy_to_clipboard, paste_timers>>

\* the user copies something in another application
user_copies(c) ==
    /\ c # clipboard
    /\ clipboard' = c
    /\ UNCHANGED <<whisprVars, recorderVars, loopVars, workers, sinkVars, envVars, logVars,
                   snapshot, cleanVars, callVars, lock_holder, monitorVars, busy_held, backendVars, stop_result,
                   auto_paste, copy_to_clipboard, paste_timers, restore_threads,
                   cmdLog, pasteLog>>

Finish == \E text \in DeliveredTexts \cup {<<>>} : finish(text)
\* the commands of the _paste calls that were run and did not succeed
RECURSIVE PasteFailures(_)
PasteFailures(log) ==
    IF log = <<>> THEN 0
    ELSE Cardinality({c \in DOMAIN Head(log).ended : Head(log).ended[c] \notin {"ok", "not run"}})
         + PasteFailures(Tail(log))

\* a tool is installed or not for the whole call: xsel for both of its
\* commands, xdotool for both of its
Paste ==
    \E t \in paste_timers : \E terminal \in BOOLEAN : \E keyup, snap, write, key \in Outcomes :
        /\ (snap = "missing") = (write = "missing")
        /\ keyup # "missing" => key # "missing"
        /\ paste(t, terminal, keyup, snap, write, key)
        /\ PasteFailures(pasteLog') <= MaxPasteFailures
RestoreClipboard == \E r \in restore_threads : \E ok \in BOOLEAN : restore_clipboard(r, ok)
UserCopies == \E c \in ClipboardTexts : user_copies(c)

PasteNext ==
    \/ Finish
    \/ Paste
    \/ RestoreClipboard
    \/ UserCopies

PasteSpec == PasteInit /\ [][PasteNext]_vars

\* ----------------------------------------------------------------- claims
\* the text "Hello world"
HelloWorldClean == <<"H", "e", "l", "l", "o", " ", "w", "o", "r", "l", "d">>

NoKeyDown == \A k \in Keys : downSince[k] = None

\* every key that is down has been down for less than the hold duration
HeldBriefly == \A k \in Keys : downSince[k] # None => now - Val(downSince[k]) < hold_duration

\* the number of times Recording was entered by an activation check for press p
EntriesFor(p) ==
    Cardinality({i \in DOMAIN startLog : startLog[i].via = "check" /\ startLog[i].press = p})

\* C1: as long as every release has come before the hold duration had elapsed
\* since its press (and no key is down for longer), with key events only, the
\* engine has never entered Recording, AudioRecorder.start has never been
\* called, and the engine is Idle whenever no key is down.
C1_EarlyReleaseNeverRecords ==
    (toggles = 0 /\ allEarly /\ HeldBriefly) =>
        /\ session = 0
        /\ startLog = <<>>
        /\ ~is_recording
        /\ state \in {IDLE, WAITING}
        /\ (NoKeyDown => state = IDLE)

C1_Witness ==
    /\ toggles = 0 /\ allEarly /\ NoKeyDown
    /\ pressNo >= 1 /\ keyEvents >= 2 /\ now >= 1
    /\ state = IDLE /\ session = 0 /\ mainpc = "loop" /\ timers = {}

\* C2 (as claimed): no press enters Recording twice, and a press from Idle that
\* has been held for the hold duration, with no activation check left to run,
\* has entered Recording once.
C2_Original ==
    /\ \A p \in 1..pressNo : EntriesFor(p) <= 1
    /\ (/\ state = WAITING /\ trigger_pressed /\ key_press_time # None
        /\ now - Val(key_press_time) >= hold_duration
        /\ timers = {} /\ mainpc = "loop")
       => EntriesFor(pressNo) = 1

\* C3: the run press, hold, release, backend prints "hello world", with no
\* other event, visits Idle, Waiting, Recording, Transcribing, Idle and nothing
\* else, and when _finish returns the history is exactly ["Hello world"].
C3_FullCycle ==
    [][(/\ mainpc = "finish" /\ mainpc' = "loop"
        /\ keyEvents = 2 /\ toggles = 0
        /\ transcription_history = <<>>
        /\ startLog = <<[via |-> "check", press |-> 1, timer |-> 1]>>
        /\ finishLog = <<[session |-> 1, text |-> Some(clean_text(HelloWorld)),
                          error |-> None]>>)
       => /\ stateLog' = <<IDLE, WAITING, RECORDING, TRANSCRIBING, IDLE>>
          /\ transcription_history' = <<HelloWorldClean>>]_vars

C3_Witness ==
    /\ mainpc = "loop" /\ keyEvents = 2 /\ toggles = 0
    /\ startLog = <<[via |-> "check", press |-> 1, timer |-> 1]>>
    /\ finishLog = <<[session |-> 1, text |-> Some(HelloWorldClean), error |-> None]>>
    /\ stateLog = <<IDLE, WAITING, RECORDING, TRANSCRIBING, IDLE>>
    /\ transcription_history = <<HelloWorldClean>>

\* C4 (as claimed): a step from Waiting to Recording is taken with the trigger
\* held and at least the hold duration elapsed since the recorded press time,
\* by the activation check that was scheduled for the current press.
C4_Original ==
    [][(state = WAITING /\ state' = RECORDING) =>
        /\ mainpc = "check_activation_locked"
        /\ trigger_pressed
        /\ key_press_time # None
        /\ now - Val(key_press_time) >= hold_duration
        /\ Val(mainArg) = pressNo]_vars

\* C4 (amended): a step from Waiting to Recording is taken by an activation
\* check, with the trigger held and at least the hold duration elapsed since
\* the press time recorded for the current press; this holds also of a check
\* that was scheduled for an earlier press.
C4_ActivationRevalidated ==
    [][(state = WAITING /\ state' = RECORDING) =>
        /\ mainpc = "check_activation_locked"
        /\ trigger_pressed
        /\ key_press_time # None
        /\ now - Val(key_press_time) >= hold_duration]_vars

\* Recording was entered by the check of a timer scheduled for an earlier press
C4_Witness ==
    /\ state = RECORDING
    /\ startLog # <<>>
    /\ startLog[Len(startLog)].via = "check"
    /\ startLog[Len(startLog)].timer < startLog[Len(startLog)].press
    /\ trigger_pressed
    /\ now - Val(key_press_time) >= hold_duration

\* C5: in Transcribing a key press, a key release or a toggle_recording call
\* leaves the engine state and the recorder as they are, and the only step
\* that leaves Transcribing is the start of _finish, which sets Idle.
C5_TranscribingRunsToCompletion ==
    [][state = TRANSCRIBING =>
        /\ (state' # TRANSCRIBING =>
                mainpc = "loop" /\ mainpc' = "finish" /\ state' = IDLE)
        /\ ((keyEvents' # keyEvents \/ toggles' # toggles) =>
                /\ state' = TRANSCRIBING
                /\ UNCHANGED <<is_recording, rec_process, temp_wav, session,
                               startLog, stopLog, workers, idle_queue>>)]_vars

\* a trigger press arrived while Transcribing (the release that led there
\* had cleared the flag)
C5_Witness == state = TRANSCRIBING /\ toggles = 0 /\ trigger_pressed /\ keyEvents >= 3

Range(q) == {q[i] : i \in DOMAIN q}

\* the number of entries of the sequence q that belong to session s
Count(q, s) == Cardinality({i \in DOMAIN q : q[i].session = s})

TooShortResult(s) == [session |-> s, text |-> None, error |-> Some(RecordingTooShort)]

\* C6: when AudioRecorder.stop returned nothing for a recording, transcribe is
\* never called for it and no transcription thread exists for it; the one
\* result of the recording is the error "Recording too short", which is either
\* waiting for the main loop (engine still Transcribing) or was given to
\* _finish, after which the engine has left Transcribing and the error was
\* notified.
C6_TooShortSkipsBackend ==
    \A i \in DOMAIN stopLog : ~stopLog[i].viable =>
        LET s == stopLog[i].session IN
        /\ s \notin Range(transcribeLog)
        /\ \A w \in workers : w.session # s
        /\ \A r \in Range(idle_queue) \cup Range(finishLog) :
                r.session = s => r = TooShortResult(s)
        /\ \/ TooShortResult(s) \in Range(idle_queue) /\ state = TRANSCRIBING
           \/ /\ TooShortResult(s) \in Range(finishLog)
              /\ (session = s => state \in {IDLE, WAITING})
              /\ (finishLog[Len(finishLog)].session = s /\ mainpc = "loop"
                    => lastNotify = Some(<<"Error: ", RecordingTooShort>>))

C6_Witness ==
    /\ stopLog # <<>> /\ ~stopLog[Len(stopLog)].viable
    /\ temp_wav # None /\ Val(temp_wav).size = 500
    /\ finishLog # <<>>
    /\ finishLog[Len(finishLog)] = TooShortResult(stopLog[Len(stopLog)].session)
    /\ mainpc = "loop" /\ state = IDLE /\ transcribeLog = <<>>

\* C7 (as claimed): when _finish is given the error of a backend call that
\* raised, it notifies "Error: <message>", plays the error sound, leaves the
\* engine out of Transcribing, adds nothing to the history and starts no
\* further transcription.
C7_Original ==
    [][(/\ mainpc = "finish" /\ mainpc' = "loop"
        /\ Val(mainArg).error # None
        /\ Val(mainArg).session \in Range(transcribeLog))
       => /\ lastNotify' = Some(<<"Error: ", Val(Val(mainArg).error)>>)
          /\ lastSound' = Some("error")
          /\ state' \in {IDLE, WAITING}
          /\ UNCHANGED <<transcription_history, workers, transcribeLog, idle_queue>>]_vars

\* C8: every entry into Transcribing has exactly one completion, which is a
\* running transcription thread, a _finish call waiting in the main loop, or
\* a _finish call that was made; no _finish call exists without an entry into
\* Transcribing, and each carries either a text or an error.
C8_FinishExactlyOnce ==
    /\ \A i \in DOMAIN stopLog :
        /\ Count(finishLog, stopLog[i].session) + Count(idle_queue, stopLog[i].session)
             + Cardinality({w \in workers : w.session = stopLog[i].session}) = 1
        /\ Count(stopLog, stopLog[i].session) = 1
    /\ \A r \in Range(finishLog) \cup Range(idle_queue) :
        /\ Count(stopLog, r.session) = 1
        /\ (r.text = None) # (r.error = None)
    /\ (state = TRANSCRIBING => Len(idle_queue) + Cardinality(workers) = 1)

\* two recordings were transcribed and each was finished
C8_Witness ==
    /\ Len(stopLog) = 2 /\ Len(finishLog) = 2
    /\ finishLog[1].session # finishLog[2].session
    /\ finishLog[2].error = None
    /\ mainpc = "loop"

\* C9: AudioRecorder.start is called only when no capture process is held, the
\* recorder is not recording and no transcription thread is running; and a
\* capture process never exists together with a transcription thread.
C9_OneRecordingInFlight ==
    /\ [](rec_process # None => workers = {} /\ state = RECORDING /\ is_recording)
    /\ [][session' # session =>
            /\ rec_process = None
            /\ ~is_recording
            /\ workers = {}
            /\ state \in {IDLE, WAITING}]_vars

\* a second capture runs, after the first was stopped and transcribed
C9_Witness ==
    /\ session = 2 /\ state = RECORDING /\ rec_process = Some(2)
    /\ temp_wav # None /\ Val(temp_wav).session = 1
    /\ transcribeLog = <<1>>

\* C10: the history holds at most MAX_HISTORY entries and is exactly the most
\* recent MAX_HISTORY non-empty texts added since the last clear, newest first:
\* an add to a full history drops the oldest entry and keeps the other nine in
\* their order behind the new one.
C10_HistoryNewestFirst ==
    /\ Len(transcription_history) <= MAX_HISTORY
    /\ Len(transcription_history) =
         (IF Len(added) < MAX_HISTORY THEN Len(added) ELSE MAX_HISTORY)
    /\ \A i \in DOMAIN transcription_history :
         transcription_history[i] = added[Len(added) + 1 - i]

\* an eleventh text was added to a full history
C10_Witness ==
    /\ Len(added) = MAX_HISTORY + 1
    /\ Len(transcription_history) = MAX_HISTORY
    /\ added[1] # added[2]
    /\ transcription_history[1] = added[MAX_HISTORY + 1]
    /\ transcription_history[MAX_HISTORY] = added[2]

\* C11: get_recent_transcriptions returns a snapshot.  A step that changes
\* the list the caller holds leaves the engine's history as it was, and
\* every step that changes the history is an add_transcription of a
\* non-empty text (new text in front, trimmed to MAX_HISTORY) or a
\* clear_transcription_history.
C11_HistoryFrame ==
    [][/\ snapshot' # snapshot => transcription_history' = transcription_history
       /\ transcription_history' # transcription_history =>
            \/ \E t \in HistTexts \ {<<>>} :
                /\ transcription_history' = add_transcription(transcription_history, t)
                /\ added' = Append(added, t)
            \/ transcription_history' = <<>> /\ added' = <<>>]_vars

\* the caller has appended to the list it holds, and the history, which is
\* not empty, holds no such entry
C11_Witness ==
    /\ snapshot # None
    /\ <<"x">> \in Range(Val(snapshot).items)
    /\ transcription_history # <<>>
    /\ <<"x">> \notin Range(transcription_history)
    /\ Len(Val(snapshot).items) > Len(transcription_history)

\* C12: cleaning is idempotent.  Whatever text _clean_text was given,
\* cleaning its result again returns that result.
C12_CleanIdempotent ==
    /\ clean_once # None => Val(clean_once) = clean_text(clean_in)
    /\ clean_twice # None => clean_twice = clean_once

\* interleaved delimiters: "([)]a" is cleaned to "]a", and so is "]a"
C12_Witness ==
    /\ clean_in = <<"(", "[", ")", "]", "a">>
    /\ clean_once = Some(<<"]", "a">>)
    /\ clean_twice = Some(<<"]", "a">>)

\* C14 as stated: every call enters exactly one backend, the cloud backend
\* when an API key is configured, else the server backend when a server
\* address is configured, else the local engine.
C14_Original ==
    \A i \in DOMAIN backendLog :
        backendLog[i].entered =
            <<IF backendLog[i].openai_api_key # "" THEN "openai"
              ELSE IF backendLog[i].whisper_server # "" THEN "server"
              ELSE "local">>

\* C14, amended: every call enters exactly one backend, the cloud backend
\* when the use_openai flag is set (and only then can it fail for want of a
\* key), else the server backend when a server address is configured, else
\* the local engine.
C14_BackendByFlag ==
    \A i \in DOMAIN backendLog :
        /\ backendLog[i].entered =
            <<IF backendLog[i].use_openai THEN "openai"
              ELSE IF backendLog[i].whisper_server # "" THEN "server"
              ELSE "local">>
        /\ backendLog[i].no_key => backendLog[i].use_openai

\* a key and a server address are configured and the flag is not set: the
\* server backend is entered; then the flag is set: the cloud backend is
C14_Witness ==
    /\ Len(backendLog) = 2
    /\ backendLog[1].entered = <<"server">>
    /\ backendLog[1].openai_api_key # ""
    /\ backendLog[2].entered = <<"openai">>
    /\ backendLog[2].whisper_server # ""

\* a press event is delivered: an event is counted and no key goes up
PressStep ==
    /\ keyEvents' = keyEvents + 1
    /\ \A k \in Keys : downSince[k] # None => downSince'[k] # None

\* C15: a trigger-key press event received while the trigger-held flag is
\* set changes neither the engine state, nor the recorded press time, nor
\* the pending activation timer and its source id, nor the flag.
C15_HeldPressIsNoOp ==
    [][PressStep /\ trigger_pressed =>
          UNCHANGED <<state, key_press_time, timers, activation_source,
                      trigger_pressed>>]_vars

\* the second trigger key went down while the first was held in Waiting
C15_Witness ==
    /\ keyEvents = 2
    /\ \A k \in Keys : downSince[k] # None
    /\ trigger_pressed
    /\ state = WAITING
    /\ pressNo = 1
    /\ toggles = 0

\* the state changes the claim lists
StatedTransitions ==
    {<<IDLE, WAITING>>, <<WAITING, RECORDING>>, <<WAITING, IDLE>>,
     <<RECORDING, TRANSCRIBING>>, <<TRANSCRIBING, IDLE>>}

\* C16 as stated: every change of the engine state is one of the five
\* listed transitions.
C16_Original ==
    \A i \in 1..(Len(stateLog) - 1) :
        <<stateLog[i], stateLog[i + 1]>> \in StatedTransitions

\* C16, amended: every change of the engine state is one of the five listed
\* transitions, or it is Idle to Recording and the step is a toggle_recording
\* call.
C16_TransitionsWithToggle ==
    [][state' # state =>
          \/ <<state, state'>> \in StatedTransitions
          \/ state = IDLE /\ state' = RECORDING /\ toggles' = toggles + 1]_vars

\* a key-started cycle has completed and the tray then started a recording
C16_Witness ==
    /\ Len(stateLog) >= 6
    /\ SubSeq(stateLog, 1, 6) = <<IDLE, WAITING, RECORDING, TRANSCRIBING, IDLE, RECORDING>>

\* C17: stop() leaves is_recording false and holds no capture-process
\* handle, whichever way it went: no process to stop, the process exited on
\* the interrupt, or the wait timed out and the process was killed.
C17_StopReleasesProcess ==
    stop_result # None => ~is_recording /\ rec_process = None

\* stop() has run while a capture process was held, and the wait timed out
C17_Witness ==
    /\ stop_result # None
    /\ Val(stop_result).path = "killed"
    /\ session = 1

\* C18: stop() returns the recording path exactly when the output file
\* exists and is larger than 1000 bytes, and nothing otherwise.
C18_ReturnsPathIffViable ==
    stop_result # None =>
        LET r == Val(stop_result) IN
        /\ r.returned # None <=> (r.file # None /\ Val(r.file).size > 1000)
        /\ r.returned # None => r.returned = Some(TempWavPath)
        /\ temp_wav = r.file

\* stop() has found a file of exactly 1000 bytes and returned nothing
C18_Witness ==
    /\ stop_result # None
    /\ Val(stop_result).file # None
    /\ Val(Val(stop_result).file).size = 1000
    /\ Val(stop_result).returned = None

\* C13 as stated: for every paste into a terminal window in which the text
\* was written to the clipboard, a restore runs, and once it has run the
\* clipboard holds what it held before the paste.
C13_Original ==
    \A i \in DOMAIN pasteLog :
        pasteLog[i].terminal /\ pasteLog[i].wrote =>
            /\ pasteLog[i].restored # None \/ \E r \in restore_threads : r.p = i
            /\ pasteLog[i].restored # None => Val(pasteLog[i].restored) = pasteLog[i].before

\* the commands that press or release keys
Keystrokes == {KeyUp, TerminalPaste, GenericPaste, TypeText}

\* C19: with auto-paste disabled and clipboard-copy enabled, a successful
\* transcription runs clipboard-write commands on its text and nothing else:
\* no _paste is scheduled or run, no keystroke command is run, nothing is
\* restored.
C19_CopyOnly ==
    ~auto_paste /\ copy_to_clipboard =>
        /\ paste_timers = {} /\ pasteLog = <<>> /\ restore_threads = {}
        /\ \A i \in DOMAIN cmdLog :
            /\ cmdLog[i].cmd \in {XselIn, Xclip}
            /\ cmdLog[i].cmd \notin Keystrokes
            /\ cmdLog[i].input \in Range(added)
        /\ Len(cmdLog) <= 2 * Len(added)

\* the text was delivered by xclip after xsel had failed
C19_Witness ==
    /\ ~auto_paste /\ copy_to_clipboard
    /\ Len(added) = 1
    /\ Len(cmdLog) = 2
    /\ cmdLog[2] = Ran(Xclip, added[1], TRUE)
    /\ clipboard = added[1]

\* C20 as stated: a paste that ran to its end in a window that is not a
\* terminal, with auto-paste and without clipboard use, typed the text and
\* did not write the clipboard.
C20_Original ==
    \A i \in DOMAIN pasteLog :
        pasteLog[i].done /\ ~pasteLog[i].terminal /\ auto_paste /\ ~copy_to_clipboard =>
            /\ \E j \in DOMAIN pasteLog[i].cmds : pasteLog[i].cmds[j].cmd = TypeText
            /\ ~pasteLog[i].wrote

\* the commands of a _paste call that were run and failed
Failed(p) == {c \in DOMAIN p.ended : p.ended[c] \notin {"ok", "not run"}}

\* the text a _paste call was given is in the history
Kept(p) == \E j \in DOMAIN transcription_history : transcription_history[j] = added[p.n]

BackendRuns(r) == {i \in DOMAIN r.runs : r.runs[i].what # "probe"}

\* C22: a missing local executable, a transport failure of the server or
\* cloud upload, and an unresolvable cloud API key each make transcribe raise
\* its labelled error and return no text; no backend command is run twice,
\* no command of another backend is run, and without an API key nothing is
\* uploaded.
C22_FailuresLabelled ==
    transcribe_result # None =>
        LET r == Val(transcribe_result)
            env == Val(backend_env)
            backend == IF use_openai THEN "openai"
                       ELSE IF whisper_server # "" THEN "server" ELSE "local"
            no_key == openai_api_key = "" /\ env_api_key = ""
        IN
        /\ backend = "local" /\ (\A i \in 1..3 : env.probes[i] # "usable") =>
              r.error = Some(NoBackendFound) /\ BackendRuns(r) = {}
        /\ backend = "server" /\ env.curl = "nonzero" => r.error = Some(ServerFailed)
        /\ backend = "openai" /\ ~no_key /\ env.curl = "nonzero" => r.error = Some(OpenAIFailed)
        /\ backend = "openai" /\ no_key => r.error = Some(NoApiKey) /\ r.runs = <<>>
        /\ r.error # None => r.text = None
        /\ Cardinality(BackendRuns(r)) <= 1
        /\ \A i \in DOMAIN r.runs : r.runs[i].backend = backend

\* the cloud backend is chosen, no key can be resolved and a server address
\* is configured: the call raised, nothing was run
C22_Witness ==
    /\ transcribe_result # None
    /\ use_openai /\ openai_api_key = "" /\ env_api_key = ""
    /\ whisper_server # ""
    /\ Val(transcribe_result).error = Some(NoApiKey)
    /\ Val(transcribe_result).runs = <<>>

\* C23 as stated: once _finish has run for a recording whose stop() returned
\* nothing, the last notification is "No speech detected" and the last sound
\* is not the error sound.
C23_Original ==
    \A i \in DOMAIN stopLog :
        (/\ ~stopLog[i].viable
         /\ finishLog # <<>>
         /\ finishLog[Len(finishLog)].session = stopLog[i].session
         /\ mainpc = "loop")
        => /\ lastNotify = Some(<<"No speech detected">>)
           /\ lastSound # Some("error")

\* C24: once _finish has been called with an error (recording too short, or
\* the error of the backend), the engine has left Transcribing, before the
\* notification is tried and whatever becomes of it: until the next recording
\* starts the state is Idle, or Waiting after a later press; and when _finish
\* is over the notification "Error: <message>" has been issued.
C24_FailureNotifiedAndIdle ==
    finishLog # <<>> /\ finishLog[Len(finishLog)].error # None =>
        /\ session = finishLog[Len(finishLog)].session => state \in {IDLE, WAITING}
        /\ state = WAITING => trigger_pressed
        /\ mainpc = "loop" =>
              lastNotify = Some(<<"Error: ", Val(finishLog[Len(finishLog)].error)>>)

\* the backend raised, notify-send failed and the error sound was not
\* played: the engine is Idle
C24_Witness ==
    /\ finishLog # <<>>
    /\ finishLog[Len(finishLog)].error \in {Some(e) : e \in BackendErrors}
    /\ mainpc = "loop"
    /\ state = IDLE
    /\ lastNotify = Some(<<"Error: ", Val(finishLog[Len(finishLog)].error)>>)
    /\ lastSound # Some("error")

\* C25: the state last reported to the tray is idle, recording or
\* transcribing, and it is the name of the engine state (idle for Waiting)
\* whenever _finish is not between its write of the state and its report.
C25_TrayFollowsState ==
    /\ tray_state \in {"idle", "recording", "transcribing"}
    /\ mainpc # "finish" =>
          /\ state \in {IDLE, WAITING} => tray_state = "idle"
          /\ state = RECORDING => tray_state = "recording"
          /\ state = TRANSCRIBING => tray_state = "transcribing"

\* a trigger key went down while _finish was running: Waiting was reported
\* as idle
C25_Witness ==
    /\ finishLog # <<>>
    /\ mainpc = "loop"
    /\ state = WAITING
    /\ key_press_time = None
    /\ tray_state = "idle"

\* the local engine was run: its probe succeeded and transcribe returned
LocalRan ==
    /\ transcribe_result # None
    /\ ~use_openai /\ whisper_server = ""
    /\ \E i \in 1..3 : Val(backend_env).probes[i] = "usable"

\* some line of the text contains one of the words, in any case
LineMentions(text, words) ==
    \E i \in DOMAIN SplitLines(text) : \E w \in words :
        Contains(LowerStr(SplitLines(text)[i]), w)

\* the line begins with the word
Begins(line, word) ==
    Len(line) >= Len(word) /\ \A i \in 1..Len(word) : line[i] = word[i]

\* the lines of the text that start with no log prefix and, once stripped,
\* with no bracket
RECURSIVE TranscriptLines(_)
TranscriptLines(lines) ==
    IF lines = <<>> THEN <<>>
    ELSE IF \/ Begins(lines[1], Chars("whisper_"))
            \/ Begins(lines[1], Chars("system_info"))
            \/ Begins(lines[1], Chars("main:"))
            \/ LStrip(lines[1]) # <<>> /\ Head(LStrip(lines[1])) = "["
         THEN TranscriptLines(Tail(lines))
         ELSE <<lines[1]>> \o TranscriptLines(Tail(lines))

\* what the local backend returns when it does not fail
LocalTranscript(env) ==
    IF \E i \in DOMAIN env.stdout : ~IsSpace(env.stdout[i])
    THEN clean_text(env.stdout)
    ELSE clean_text(JoinLines(TranscriptLines(SplitLines(env.stderr))))

\* C26 as stated: the local backend fails exactly when the exit status is
\* not zero or a line of stderr contains "error", "failed" or "could not
\* open"; otherwise it returns the cleaned stdout when stdout is not blank,
\* else the cleaned stderr without its log and timestamp lines.
C26_Original ==
    LocalRan =>
        LET r == Val(transcribe_result)
            env == Val(backend_env)
        IN
        /\ r.error # None <=>
              \/ env.rc # 0
              \/ LineMentions(env.stderr, {Chars("error"), Chars("failed"), Chars("could not open")})
        /\ r.error = None => r.text = Some(LocalTranscript(env))

\* C26, amended: the local backend fails exactly when the exit status is not
\* zero or stderr contains "error:", "failed to read" or "could not open" in
\* any case, whatever stdout holds; otherwise it returns the cleaned stdout
\* when stdout is not blank, else the cleaned stderr without the lines that
\* start with a log prefix or, once stripped, with a bracket.
C26_LocalExtraction ==
    LocalRan =>
        LET r == Val(transcribe_result)
            env == Val(backend_env)
        IN
        /\ r.error # None <=>
              \/ env.rc # 0
              \/ LineMentions(env.stderr,
                    {Chars("error:"), Chars("failed to read"), Chars("could not open")})
        /\ r.error # None => r.error = Some(LocalFailed) /\ r.text = None
        /\ r.error = None => r.text = Some(LocalTranscript(env))

\* stdout was blank and stderr held a log line and an indented timestamp
\* line around the spoken text, which alone was returned
C26_Witness ==
    /\ LocalRan
    /\ Val(backend_env).stdout = Chars(" \n")
    /\ Val(backend_env).stderr = Printed(<<Chars("  [00:00] yo"), Chars("hi there")>>)
    /\ Val(transcribe_result).text = Some(Chars("Hi there"))

\* C27 as stated: at most one activation-check timer is pending.
C27_Original == Cardinality(timers) <= 1

\* a key event that calls GLib.source_remove when a source id is kept: a
\* release in Waiting, a press in Idle that is not a repeat
CancelStep ==
    /\ keyEvents' = keyEvents + 1
    /\ \/ state = WAITING /\ state' = IDLE
       \/ state = IDLE /\ state' = WAITING

\* C28 as stated: after a release has taken the engine from Waiting to Idle
\* no timer of that press is pending; source_remove is only called for a
\* timer that is pending or whose callback has not yet cleared the source
\* id, never for one that is gone; and a release when no timer is pending
\* leaves none pending.
C28_Original ==
    [][/\ (keyEvents' = keyEvents + 1 /\ state = WAITING /\ state' = IDLE)
            => \A t \in timers' : t.id # pressNo
       /\ (CancelStep /\ activation_source # None)
            => \/ \E t \in timers : Some(t.id) = activation_source
               \/ mainpc = "check_activation" /\ mainArg = activation_source
       /\ (keyEvents' = keyEvents + 1 /\ trigger_pressed /\ ~trigger_pressed' /\ timers = {})
            => timers' = {}]_vars

\* C29 as stated: every step that changes the engine state or the
\* trigger-held flag is taken by a thread that holds the engine lock.
C29_Original ==
    [][state' # state \/ trigger_pressed' # trigger_pressed => lock_holder # None]_vars

\* C30 as stated: while a thread holds the engine lock it has neither
\* spawned the capture process nor waited for it to stop.
C30_Original ==
    lock_holder # None =>
        /\ Len(startLog) = Val(lock_holder).starts
        /\ Len(stopLog) = Val(lock_holder).stops

\* C31 as stated: a step of the key-listener thread (a key event is
\* delivered) changes neither the engine state nor what the tray shows.
C31_Original ==
    [][keyEvents' # keyEvents => state' = state /\ tray_state' = tray_state]_vars

\* C34 as stated: in Waiting the trigger-held flag is set and a press time is
\* recorded.
C34_Original == state = WAITING => trigger_pressed /\ key_press_time # None

\* C35 as stated: in Waiting with the trigger held an activation check is
\* pending (a timer) or running (_check_activation has been dispatched).
C35_Original ==
    state = WAITING /\ trigger_pressed
        => timers # {} \/ mainpc \in {"check_activation", "check_activation_locked"}

\* C36 as stated: the trigger-held flag is set exactly when at least one
\* trigger key is down.
C36_Original == trigger_pressed <=> \E k \in Keys : downSince[k] # None

\* C39 as stated: every file handed to a transcription thread was written by
\* the capture of the recording session that the thread was started for.
C39_Original == \A w \in workers : w.wav.session = w.session

\* C32: a transcription runs on a thread that _stop_recording started for
\* that recording alone; the step in which it ends leaves the engine state,
\* the history, the tray, the notifications, the sounds and the running
\* main-loop callback as they are, and hands exactly one result for its
\* session to the main loop's idle queue; _finish runs only on the main loop,
\* on the result at the head of that queue.
C32_TranscriptionOffLoop ==
    [][/\ Len(stopLog') > Len(stopLog) /\ stopLog'[Len(stopLog')].viable
            => \E w \in workers' \ workers :
                 /\ w.session = session
                 /\ workers' = workers \cup {w}
                 /\ idle_queue' = idle_queue
       /\ transcribeLog' # transcribeLog
            => /\ UNCHANGED <<state, transcription_history, added, tray_state,
                             lastNotify, lastSound, mainpc, mainArg, finishLog>>
               /\ \E w \in workers :
                    /\ workers' = workers \ {w}
                    /\ transcribeLog' = Append(transcribeLog, w.session)
                    /\ Len(idle_queue') = Len(idle_queue) + 1
                    /\ SubSeq(idle_queue', 1, Len(idle_queue)) = idle_queue
                    /\ idle_queue'[Len(idle_queue')].session = w.session
       /\ finishLog' # finishLog
            => /\ mainpc = "loop" /\ mainpc' = "finish"
               /\ idle_queue # <<>>
               /\ finishLog' = Append(finishLog, Head(idle_queue))
               /\ idle_queue' = Tail(idle_queue)]_vars

\* a transcription thread has ended and its text waits in the idle queue,
\* with the engine still Transcribing
C32_Witness ==
    /\ state = TRANSCRIBING
    /\ transcribeLog # <<>>
    /\ idle_queue # <<>>
    /\ Head(idle_queue).text # None
    /\ Head(idle_queue).session = transcribeLog[Len(transcribeLog)]

\* C33 as stated: at most one monitor_level thread is alive, and a thread
\* hands over a level only during the recording that its own start() began.
C33_Original ==
    /\ Cardinality(monitors) <= 1
    /\ \A i \in DOMAIN levelLog : levelLog[i].thread = levelLog[i].session

\* C37 as stated: the delivery of a trigger press while the engine is
\* Recording or Transcribing changes neither the state nor the pending
\* timers; and the activation check starts no recording while a trigger key
\* is down that went down when the engine was Recording or Transcribing.
C37_Original ==
    [][/\ (/\ keyEvents' # keyEvents /\ Busy
           /\ \A k \in Keys : downSince[k] # None => downSince'[k] # None)
            => state' = state /\ timers' = timers
       /\ (Len(startLog') > Len(startLog) /\ startLog'[Len(startLog')].via = "check")
            => busy_held = {}]_vars

\* the body of the with statement the holder is in
HolderBody ==
    CASE Val(lock_holder).what = "press" -> ENABLED LockedKeyPress
      [] Val(lock_holder).what = "release" -> ENABLED LockedKeyRelease
      [] Val(lock_holder).what = "check" -> ENABLED LockedCheckActivation
      [] OTHER -> ENABLED LockedToggle

\* C38: whenever the engine lock is held, its holder can take its next step:
\* the body of its with statement can run (nothing in it asks for the lock
\* again) and, once the body has returned or raised, the lock can be
\* released; the lock is only ever taken when it is free.
C38_NoLockDeadlock ==
    lock_holder # None =>
        IF BodyDone THEN ENABLED lock_release ELSE HolderBody

\* the lock is held by the main loop, whose body started a capture that
\* raised (no capture process, the flag set), and has yet to be released
C38_Witness ==
    /\ lock_holder # None
    /\ Val(lock_holder).thread = "main"
    /\ BodyDone
    /\ Len(startLog) > Val(lock_holder).starts
    /\ rec_process = None
    /\ is_recording

\* C40: when _finish is called with no error and a text that is empty, it
\* leaves the engine Idle and notifies "No speech detected"; the history, the
\* clipboard, the pending and recorded _paste calls, the commands run and the
\* last sound played are what they were.
C40_NoSpeech ==
    [][(/\ finishLog' # finishLog
        /\ finishLog'[Len(finishLog')].error = None
        /\ finishLog'[Len(finishLog')].text = Some(<<>>))
       => /\ state' = IDLE
          /\ lastNotify' = Some(<<"No speech detected">>)
          /\ UNCHANGED <<transcription_history, added, lastSound, clipboard,
                         paste_timers, restore_threads, cmdLog, pasteLog>>]_vars

\* _finish has been called with an empty text and has notified
C40_Witness ==
    /\ finishLog # <<>>
    /\ finishLog[Len(finishLog)].text = Some(<<>>)
    /\ lastNotify = Some(<<"No speech detected">>)
    /\ state = IDLE

====
